---- MODULE Spec2Model ----
(***************************************************************************)
(* Grounded evidence pipeline of executive-job-agent:                      *)
(*   app/core/grounded_extract.py      chunking, tagging, extraction, store *)
(*   app/core/grounded_gap_engine.py   matching, classification, analysis   *)
(*   app/core/objective_requirements.py overrides and rebucketing           *)
(*   app/core/build_evidence_cache.py  ingestion                            *)
(*   app/core/schema_grounded_gap.py   tables and their UNIQUE constraints  *)
(*                                                                         *)
(* Texts are TLA+ strings.  Python floats are modelled as exact rationals  *)
(* <<numerator, denominator>> in lowest terms.                             *)
(***************************************************************************)
EXTENDS Integers, Sequences, FiniteSets, TLC

\* ------------------------------------------------------------------------
\* Rationals (float arithmetic of the code, kept exact)
\* ------------------------------------------------------------------------
RECURSIVE GCD(_, _)
GCD(a, b) == IF b = 0 THEN a ELSE GCD(b, a % b)

Abs(n) == IF n < 0 THEN -n ELSE n

Rat(n, d) ==
    LET g == GCD(Abs(n), d)
    IN  IF n = 0 THEN <<0, 1>> ELSE <<n \div g, d \div g>>

RAdd(a, b) == Rat(a[1] * b[2] + b[1] * a[2], a[2] * b[2])
RMul(a, b) == Rat(a[1] * b[1], a[2] * b[2])
RLe(a, b)  == a[1] * b[2] <= b[1] * a[2]
RLt(a, b)  == a[1] * b[2] < b[1] * a[2]
RMin(a, b) == IF RLe(a, b) THEN a ELSE b
RMax(a, b) == IF RLe(a, b) THEN b ELSE a

\* Python round(): nearest integer, ties to the even one
PyRound(r) ==
    LET q   == r[1] \div r[2]
        rem == r[1] % r[2]
    IN  IF 2 * rem < r[2] THEN q
        ELSE IF 2 * rem > r[2] THEN q + 1
        ELSE IF q % 2 = 0 THEN q ELSE q + 1

\* ------------------------------------------------------------------------
\* Characters and strings
\* ------------------------------------------------------------------------
UpperChars == "ABCDEFGHIJKLMNOPQRSTUVWXYZ"
LowerChars == "abcdefghijklmnopqrstuvwxyz"
DigitChars == "0123456789"

Ch(s, i) == SubSeq(s, i, i)

CharsOf(s) == {Ch(s, i) : i \in 1..Len(s)}

Uppers == CharsOf(UpperChars)
Lowers == CharsOf(LowerChars)
Digits == CharsOf(DigitChars)
Spaces == {" ", "\n", "\t", "\r"}

LowerOf == [c \in Uppers |-> Ch(LowerChars, CHOOSE k \in 1..26 : Ch(UpperChars, k) = c)]

DigitVal == [c \in Digits |-> (CHOOSE k \in 1..10 : Ch(DigitChars, k) = c) - 1]

\* str.lower() on one character
lower_ch(c) == IF c \in Uppers THEN LowerOf[c] ELSE c

\* str.lower(), by halves
RECURSIVE lower(_)
lower(s) ==
    IF s = "" THEN ""
    ELSE IF Len(s) = 1 THEN lower_ch(s)
    ELSE LET h == Len(s) \div 2
         IN  lower(SubSeq(s, 1, h)) \o lower(SubSeq(s, h + 1, Len(s)))

\* the elements of a finite set of integers in increasing order
Ascending(S) ==
    [k \in 1..Cardinality(S) |-> CHOOSE p \in S : Cardinality({q \in S : q < p}) = k - 1]

\* str.isalnum() on one character
isalnum(c) == c \in Uppers \cup Lowers \cup Digits

\* regex \w on one character
IsWord(c) == isalnum(c) \/ c = "_"

\* regex \b between position i-1 and i of s (1-based; i in 1..Len(s)+1)
WordBoundary(s, i) ==
    LET before == i > 1 /\ IsWord(Ch(s, i - 1))
        after  == i <= Len(s) /\ IsWord(Ch(s, i))
    IN  before # after

\* `sub in s`
Contains(s, sub) ==
    \E i \in 1..(Len(s) - Len(sub) + 1) : SubSeq(s, i, i + Len(sub) - 1) = sub

\* s[i:].startswith(p), 1-based
StartsAt(s, i, p) == i + Len(p) - 1 <= Len(s) /\ SubSeq(s, i, i + Len(p) - 1) = p

\* length of the run of characters of cs starting at position i
RunLen(s, i, cs) ==
    LET stops == {j \in i..Len(s) : Ch(s, j) \notin cs}
    IN  IF i > Len(s) THEN 0
        ELSE IF stops = {} THEN Len(s) - i + 1
        ELSE (CHOOSE j \in stops : \A k \in stops : j <= k) - i

\* length of the run of characters of cs ending at the end of s
RunLenBack(s, cs) ==
    LET stops == {j \in 1..Len(s) : Ch(s, j) \notin cs}
    IN  IF stops = {} THEN Len(s)
        ELSE Len(s) - (CHOOSE j \in stops : \A k \in stops : k <= j)

\* str.lstrip(cs)
LStripSet(s, cs) == SubSeq(s, 1 + RunLen(s, 1, cs), Len(s))

\* str.rstrip(cs)
RStripSet(s, cs) == SubSeq(s, 1, Len(s) - RunLenBack(s, cs))

\* str.strip()
strip(s) == RStripSet(LStripSet(s, Spaces), Spaces)

\* re.sub(r"\r\n?", "\n", t), one "\r" at a time
RECURSIVE NormalizeNewlines(_)
NormalizeNewlines(t) ==
    LET crs == {i \in 1..Len(t) : Ch(t, i) = "\r"}
    IN  IF crs = {} THEN t
        ELSE LET i == CHOOSE j \in crs : \A k \in crs : j <= k
                 n == IF i + 1 <= Len(t) /\ Ch(t, i + 1) = "\n" THEN i + 2 ELSE i + 1
             IN  SubSeq(t, 1, i - 1) \o "\n" \o NormalizeNewlines(SubSeq(t, n, Len(t)))

\* str.split("\n")
SplitLines(t) ==
    LET nls == Ascending({i \in 1..Len(t) : Ch(t, i) = "\n"})
        n   == Len(nls)
    IN  [k \in 1..(n + 1) |->
            SubSeq(t, IF k = 1 THEN 1 ELSE nls[k - 1] + 1,
                      IF k = n + 1 THEN Len(t) ELSE nls[k] - 1)]

\* s * n
RECURSIVE Rep(_, _)
Rep(s, n) ==
    IF n = 0 THEN ""
    ELSE IF n = 1 THEN s
    ELSE Rep(s, n \div 2) \o Rep(s, n - (n \div 2))

\* int() of a digit string
RECURSIVE ParseInt(_)
ParseInt(s) ==
    IF s = "" THEN 0
    ELSE 10 * ParseInt(SubSeq(s, 1, Len(s) - 1)) + DigitVal[Ch(s, Len(s))]

\* Optional[T]: None is the empty sequence, a value v is <<v>>
None == <<>>
Some(v) == <<v>>

\* ------------------------------------------------------------------------
\* TaggingEngine (grounded_extract.py)
\* ------------------------------------------------------------------------
TAG_LEXICON == <<
    [tag |-> "corporate_narrative", kws |-> <<"corporate narrative", "company narrative", "positioning", "reputation", "brand trust">>],
    [tag |-> "thought_leadership", kws |-> <<"thought leadership", "op-ed", "keynote", "panel", "speaker", "speaking", "byline">>],
    [tag |-> "executive_comms", kws |-> <<"executive communications", "ceo", "cfo", "exec", "leadership team", "board", "executive presence">>],
    [tag |-> "media_relations", kws |-> <<"media relations", "journalist", "press", "earned media", "pitch", "story pitch", "newsroom">>],
    [tag |-> "product_comms", kws |-> <<"product communications", "launch", "milestone", "product", "platform", "solution", "gtm">>],
    [tag |-> "internal_comms", kws |-> <<"internal communications", "employee communications", "all-hands", "town hall", "culture", "people & culture">>],
    [tag |-> "financial_comms", kws |-> <<"financial communications", "earnings", "investor", "ir", "analyst", "guidance", "s-1", "ipo">>],
    [tag |-> "crisis_issues", kws |-> <<"crisis", "issues management", "incident", "reputation risk", "rapid response", "war room">>],
    [tag |-> "policy_public_affairs", kws |-> <<"public policy", "government affairs", "public affairs", "dc", "washington", "regulatory", "legislation">>],
    [tag |-> "regulated_healthcare", kws |-> <<"fda", "hipaa", "clinical", "healthcare", "biotech", "life sciences", "medtech", "health tech", "pharma">>],
    [tag |-> "measurement", kws |-> <<"measurement", "metrics", "kpi", "share of voice", "sentiment", "dashboard", "effectiveness">>],
    [tag |-> "agency_management", kws |-> <<"agency", "pr agency", "agency relationship", "retainer", "vendor">>],
    [tag |-> "partner_comms", kws |-> <<"partner", "partnership", "alliances", "customer", "stakeholder">>],
    [tag |-> "writing_materials", kws |-> <<"press release", "blog", "q&a", "messaging", "talking points", "presentation", "speech", "guidelines">>]
>>

\* the lexicon's tag names in the order sorted() puts them
SortedTagNames == <<
    "agency_management", "corporate_narrative", "crisis_issues", "executive_comms",
    "financial_comms", "internal_comms", "measurement", "media_relations",
    "partner_comms", "policy_public_affairs", "product_comms", "regulated_healthcare",
    "thought_leadership", "writing_materials">>

\* sorted(set(tags)) for a set of lexicon tag names
SortedTags(tagset) == SelectSeq(SortedTagNames, LAMBDA t : t \in tagset)

\* the optional  (?:\.\d+)?  of RE_METRICS at position j: the position after it
SkipFraction(s, j) ==
    IF j <= Len(s) /\ Ch(s, j) = "." /\ RunLen(s, j + 1, Digits) >= 1
    THEN j + 1 + RunLen(s, j + 1, Digits)
    ELSE j

\* the optional  \s?  of RE_METRICS at position j: the position after it
SkipSpace(s, j) == IF j <= Len(s) /\ Ch(s, j) \in Spaces THEN j + 1 ELSE j

\* the unit  (?:k|m|b)\b  of RE_METRICS at position j (re.I)
UnitAt(s, j) ==
    /\ j <= Len(s)
    /\ lower_ch(Ch(s, j)) \in {"k", "m", "b"}
    /\ WordBoundary(s, j + 1)

\* the tail  \d+(?:\.\d+)?\s?(?:k|m|b)\b  of RE_METRICS, matched at position j
NumUnitAt(s, j) ==
    /\ RunLen(s, j, Digits) >= 1
    /\ UnitAt(s, SkipSpace(s, SkipFraction(s, j + RunLen(s, j, Digits))))

\* RE_METRICS matches at position i
RE_METRICS_At(s, i) ==
    \/ /\ WordBoundary(s, i)
       /\ LET n == RunLen(s, i, Digits)
          IN  /\ n \in 1..3
              /\ i + n <= Len(s)
              /\ Ch(s, i + n) = "%"
              /\ WordBoundary(s, i + n + 1)
    \/ /\ Ch(s, i) = "$"
       /\ NumUnitAt(s, IF i + 1 <= Len(s) /\ Ch(s, i + 1) \in Spaces THEN i + 2 ELSE i + 1)
    \/ /\ WordBoundary(s, i)
       /\ NumUnitAt(s, i)

\* bool(metrics): RE_METRICS.finditer(text) yields at least one match
HasMetrics(s) == \E i \in 1..Len(s) : RE_METRICS_At(s, i)

TeamKeywords == <<"team of", "managed", "led">>

\* group 2 of RE_TEAM, n digits at position p: its value, else None
RE_TEAM_Num(s, p, n) ==
    IF n \in 1..4 /\ WordBoundary(s, p + n) THEN Some(ParseInt(SubSeq(s, p, p + n - 1)))
    ELSE None

\* \s+ of RE_TEAM, w characters at position j, then group 2
RE_TEAM_Gap(s, j, w) ==
    IF w >= 1 THEN RE_TEAM_Num(s, j + w, RunLen(s, j + w, Digits)) ELSE None

\* RE_TEAM matches at position i with keyword kw: the value of group 2, else None
RE_TEAM_At(s, i, kw) ==
    IF WordBoundary(s, i) /\ StartsAt(lower(s), i, kw)
    THEN RE_TEAM_Gap(s, i + Len(kw), RunLen(s, i + Len(kw), Spaces))
    ELSE None

\* the matches of RE_TEAM in s: position, alternative, value of group 2
TeamMatches(s) ==
    {m \in {<<i, k, RE_TEAM_At(s, i, TeamKeywords[k])>> :
               i \in 1..Len(s), k \in 1..Len(TeamKeywords)} : m[3] # None}

\* the leftmost match, by the first alternative that matches there
FirstMatch(M) ==
    IF M = {} THEN None
    ELSE (CHOOSE m \in M : \A o \in M : m[1] < o[1] \/ (m[1] = o[1] /\ m[2] <= o[2]))[3]

\* RE_TEAM.search(text): group 2 of the leftmost match, as int, else None
TeamSize(s) == FirstMatch(TeamMatches(s))

\* the tags whose lexicon has a keyword that occurs in the lowered text
FoundTags(low) ==
    {TAG_LEXICON[k].tag : k \in {q \in 1..Len(TAG_LEXICON) :
        \E w \in 1..Len(TAG_LEXICON[q].kws) : Contains(low, TAG_LEXICON[q].kws[w])}}

\* conf = 0.35 + min(0.35, 0.08 * len(tags)), + 0.10 for metrics, + 0.10 for
\* a team size, clamped to [0, 1]
Confidence(ntags, metrics, has_team) ==
    RMax(Rat(0, 1),
         RMin(Rat(1, 1),
              RAdd(RAdd(RAdd(Rat(35, 100), RMin(Rat(35, 100), Rat(8 * ntags, 100))),
                        IF metrics THEN Rat(10, 100) ELSE Rat(0, 1)),
                   IF has_team THEN Rat(10, 100) ELSE Rat(0, 1))))

Signals(found, metrics, team_size) ==
    [tags       |-> SortedTags(found),
     metrics    |-> metrics,
     team_size  |-> team_size,
     confidence |-> Confidence(Cardinality(found), metrics, team_size # None)]

\* tag_and_extract_signals: tags, any metric, team size and confidence.
\* The budget and years signals are written to signals_json only and are
\* read by no other code; they are left out.
tag_and_extract_signals(chunk) ==
    Signals(FoundTags(lower(chunk)), HasMetrics(chunk), TeamSize(chunk))

\* ------------------------------------------------------------------------
\* ChunkingEngine (grounded_extract.py)
\* ------------------------------------------------------------------------
\* hashlib.sha256(...).hexdigest(): equal exactly on equal inputs
_hash_text(s) == <<"sha256", s>>

\* str(n) for n >= 0
RECURSIVE Str(_)
Str(n) == IF n < 10 THEN Ch(DigitChars, n + 1) ELSE Str(n \div 10) \o Ch(DigitChars, (n % 10) + 1)

\* "\n".join(buf)
RECURSIVE Join(_)
Join(buf) ==
    IF buf = <<>> THEN ""
    ELSE IF Len(buf) = 1 THEN buf[1]
    ELSE buf[1] \o "\n" \o Join(Tail(buf))

SectionHeadings == <<"experience", "professional experience", "leadership", "education",
                     "skills", "summary", "highlights", "accomplishments", "projects",
                     "publications", "speaking", "press", "media">>

\* positions p > j such that t[j..p-1] is whitespace ending in "\n"
NewlineEnds(t, j) == {p \in (j + 1)..(j + RunLen(t, j, Spaces)) : Ch(t, p - 1) = "\n"}

\* SECTION_SPLIT matched at position i of t: the position after the match, or 0
SECTION_SPLIT_At(t, i) ==
    LET j    == i + 1 + RunLen(t, i + 1, Spaces)
        low  == lower(t)
        hits == {k \in 1..Len(SectionHeadings) :
                    /\ StartsAt(low, j, SectionHeadings[k])
                    /\ NewlineEnds(t, j + Len(SectionHeadings[k])) # {}}
    IN  IF i <= Len(t) /\ Ch(t, i) = "\n" /\ hits # {}
        THEN LET k    == CHOOSE h \in hits : \A g \in hits : h <= g
                 ends == NewlineEnds(t, j + Len(SectionHeadings[k]))
             IN  CHOOSE p \in ends : \A q \in ends : q <= p
        ELSE 0

\* SECTION_SPLIT.split(t), scanning from position pos
RECURSIVE SECTION_SPLIT_split(_, _)
SECTION_SPLIT_split(t, pos) ==
    LET starts == {i \in pos..Len(t) : SECTION_SPLIT_At(t, i) # 0}
    IN  IF starts = {} THEN <<SubSeq(t, pos, Len(t))>>
        ELSE LET i == CHOOSE h \in starts : \A g \in starts : h <= g
             IN  <<SubSeq(t, pos, i - 1)>> \o SECTION_SPLIT_split(t, SECTION_SPLIT_At(t, i))

\* the bullet markers of chunk_text that the character set of the model has
ChunkBullets == {"-", "*"}

\* the state after flush() turned the buffer into chunk
Flushed(st, section_name, chunk) ==
    [buf |-> <<>>, buf_len |-> 0,
     chunks |-> IF chunk # "" THEN Append(st.chunks, <<section_name, chunk>>) ELSE st.chunks]

\* flush() of chunk_text on the loop state st = [buf, buf_len, chunks]
flush(st, section_name) ==
    IF st.buf = <<>> THEN st ELSE Flushed(st, section_name, strip(Join(st.buf)))

\* chunks.append((section_name, piece)) if piece
Piece(section_name, piece) == IF piece # "" THEN <<<<section_name, piece>>>> ELSE <<>>

\* the pieces ln[j:j+max_chars].strip() of a long line, empty ones dropped
RECURSIVE SlicePieces(_, _, _)
SlicePieces(ln, max_chars, section_name) ==
    IF ln = "" THEN <<>>
    ELSE Piece(section_name,
               strip(SubSeq(ln, 1, IF Len(ln) < max_chars THEN Len(ln) ELSE max_chars)))
         \o SlicePieces(SubSeq(ln, max_chars + 1, Len(ln)), max_chars, section_name)

\* a long line: its pieces go after the flushed buffer
AppendSlices(f, pieces) == [f EXCEPT !.chunks = f.chunks \o pieces]

\* buf.append(ln); buf_len += len(ln) + 1
BufferLine(f, ln) == [f EXCEPT !.buf = Append(f.buf, ln), !.buf_len = f.buf_len + Len(ln) + 1]

\* the flush at a boundary: a bullet or a closing full stop, once min_chars are buffered
Buffered(a, ln, section_name, min_chars) ==
    IF a.buf_len >= min_chars /\ (Ch(ln, 1) \in ChunkBullets \/ Ch(ln, Len(ln)) = ".")
    THEN flush(a, section_name)
    ELSE a

\* an iteration that never flushes before it buffers a line
ChunkLineNoFlush(st, ln, section_name, max_chars, min_chars) ==
    IF ln = "" THEN st
    ELSE IF Len(ln) > max_chars
    THEN AppendSlices(flush(st, section_name), SlicePieces(ln, max_chars, section_name))
    ELSE Buffered(BufferLine(st, ln), ln, section_name, min_chars)

\* one iteration of `for ln in lines`
ChunkLine(st, ln, section_name, max_chars, min_chars) ==
    IF ln = "" THEN st
    ELSE IF Len(ln) > max_chars
    THEN AppendSlices(flush(st, section_name), SlicePieces(ln, max_chars, section_name))
    ELSE Buffered(BufferLine(IF st.buf_len + Len(ln) + 1 > max_chars
                             THEN flush(st, section_name) ELSE st, ln),
                  ln, section_name, min_chars)

RECURSIVE ChunkLines(_, _, _, _, _)
ChunkLines(st, lines, section_name, max_chars, min_chars) ==
    IF lines = <<>> THEN flush(st, section_name)
    ELSE ChunkLines(ChunkLine(st, Head(lines), section_name, max_chars, min_chars),
                    Tail(lines), section_name, max_chars, min_chars)

\* the parts of SECTION_SPLIT.split as (name, text) pairs
NameSections(t, parts) ==
    IF Len(parts) = 1 THEN <<<<"document", t>>>>
    ELSE SelectSeq([i \in 1..Len(parts) |-> <<"section_" \o Str(i), strip(parts[i])>>],
                   LAMBDA p : p[2] # "")

\* the sections of chunk_text: (name, text) pairs
ChunkSections(t) == NameSections(t, SECTION_SPLIT_split(t, 1))

\* [ln.strip() for ln in lines]
StripAll(raw) == [i \in 1..Len(raw) |-> strip(raw[i])]

\* the lines of one section, chunked after the chunks so far
ChunkSection(chunks, sec, max_chars, min_chars) ==
    ChunkLines([buf |-> <<>>, buf_len |-> 0, chunks |-> chunks],
               StripAll(SplitLines(sec[2])), sec[1], max_chars, min_chars)

RECURSIVE ChunkAllSections(_, _, _, _)
ChunkAllSections(chunks, sections, max_chars, min_chars) ==
    IF sections = <<>> THEN chunks
    ELSE ChunkAllSections(ChunkSection(chunks, Head(sections), max_chars, min_chars).chunks,
                          Tail(sections), max_chars, min_chars)

\* chunk_text without its closing loop: every chunk kept
ChunksKept(chunks, seen) == chunks

\* a closing loop that hashes the chunk text without the section label
RECURSIVE DedupByText(_, _)
DedupByText(chunks, seen) ==
    IF chunks = <<>> THEN <<>>
    ELSE LET h == _hash_text(Head(chunks)[2])
         IN  IF h \in seen THEN DedupByText(Tail(chunks), seen)
             ELSE <<Head(chunks)>> \o DedupByText(Tail(chunks), seen \cup {h})

\* the closing loop of chunk_text: keep the first chunk of every hash
RECURSIVE DedupChunks(_, _)
DedupChunks(chunks, seen) ==
    IF chunks = <<>> THEN <<>>
    ELSE LET h == _hash_text(Head(chunks)[1] \o "\n" \o Head(chunks)[2])
         IN  IF h \in seen THEN DedupChunks(Tail(chunks), seen)
             ELSE <<Head(chunks)>> \o DedupChunks(Tail(chunks), seen \cup {h})

ChunkStripped(t, max_chars, min_chars) ==
    IF t = "" THEN <<>>
    ELSE DedupChunks(ChunkAllSections(<<>>, ChunkSections(NormalizeNewlines(t)),
                                      max_chars, min_chars), {})

chunk_text(text, max_chars, min_chars) == ChunkStripped(strip(text), max_chars, min_chars)

\* the defaults of chunk_text
DefaultMaxChars == 700
DefaultMinChars == 200

\* ------------------------------------------------------------------------
\* RequirementExtractor (grounded_extract.py)
\* ------------------------------------------------------------------------
\* the bullet markers of extract_requirements_deterministic that the
\* character set of the model has
ReqBullets == {"-", "*"}

\* "REQ-%d": no padding
ReqIdUnpadded(n) == "REQ-" \o Str(n)

\* "REQ-%03d"
ReqId(n) == "REQ-" \o (IF n < 10 THEN "00" ELSE IF n < 100 THEN "0" ELSE "") \o Str(n)

\* the dict appended for a bullet line under the current mode
Requirement(req_id, mode, text, tags) ==
    [requirement_id |-> ReqId(req_id),
     category       |-> IF mode \in {"qualification", "responsibility"} THEN "required" ELSE "preferred",
     competency     |-> IF tags # <<>> THEN tags[1] ELSE "general",
     text           |-> text,
     weight         |-> IF mode \in {"qualification", "responsibility"} THEN 3 ELSE 1,
     must_have      |-> mode \in {"qualification", "responsibility"}]

\* a bullet line that is emitted whatever its text
AddRequirementAny(st, text) ==
    [st EXCEPT
        !.reqs = Append(st.reqs, Requirement(st.req_id, st.mode, text,
                                             tag_and_extract_signals(text).tags)),
        !.req_id = st.req_id + 1]

\* a bullet line whose text after the marker is `text`
AddRequirement(st, text) ==
    IF text = "" THEN st
    ELSE [st EXCEPT
            !.reqs = Append(st.reqs, Requirement(st.req_id, st.mode, text,
                                                 tag_and_extract_signals(text).tags)),
            !.req_id = st.req_id + 1]

\* the scan of a line with "preferred" tested before the other keywords
ExtractPreferredFirst(st, ln, l) ==
    IF Contains(l, "preferred") THEN [st EXCEPT !.mode = "preferred"]
    ELSE IF Contains(l, "responsibilit") THEN [st EXCEPT !.mode = "responsibility"]
    ELSE IF Contains(l, "qualif") THEN [st EXCEPT !.mode = "qualification"]
    ELSE IF Ch(ln, 1) \in ReqBullets
    THEN AddRequirement(st, strip(LStripSet(ln, ReqBullets \cup {" "})))
    ELSE st

\* one line ln, l its lowered text, on st = [reqs, req_id, mode]
ExtractLowered(st, ln, l) ==
    IF Contains(l, "responsibilit") THEN [st EXCEPT !.mode = "responsibility"]
    ELSE IF Contains(l, "qualif") THEN [st EXCEPT !.mode = "qualification"]
    ELSE IF Contains(l, "preferred") THEN [st EXCEPT !.mode = "preferred"]
    ELSE IF Ch(ln, 1) \in ReqBullets
    THEN AddRequirement(st, strip(LStripSet(ln, ReqBullets \cup {" "})))
    ELSE st

\* the loop of extract_requirements_deterministic
ExtractLine(st, ln) == ExtractLowered(st, ln, lower(ln))

RECURSIVE ExtractLines(_, _)
ExtractLines(st, lines) ==
    IF lines = <<>> THEN st ELSE ExtractLines(ExtractLine(st, Head(lines)), Tail(lines))

\* lines = [ln.strip() for ln in ...], the empty ones dropped
NonEmptyLines(raw) == SelectSeq(StripAll(raw), LAMBDA ln : ln # "")

ExtractStripped(jd) ==
    IF jd = "" THEN <<>>
    ELSE ExtractLines([reqs |-> <<>>, req_id |-> 1, mode |-> "general"],
                      NonEmptyLines(SplitLines(NormalizeNewlines(jd)))).reqs

extract_requirements_deterministic(job_desc) == ExtractStripped(strip(job_desc))

\* ------------------------------------------------------------------------
\* Semantic similarity provider (semantic_match.py), as the matcher sees it
\* ------------------------------------------------------------------------
\* the client cannot be imported, the request raises, the response is one
\* embedding short; or the embeddings give every candidate the cosine 1/2,
\* or the last candidate 1 and the others 0, or the first candidate -1 and
\* the others 1/2
ProviderModes == {"unavailable", "raises", "short", "uniform", "favour_last", "opposed_first"}

\* the modes in which the provider gives no similarities
ProviderFailures == {"unavailable", "raises", "short"}

\* try_embed_texts(texts) on n texts: None when there is no client or the
\* request raises, else the number of embeddings of the response
try_embed_texts(provider, n) ==
    IF provider \in {"unavailable", "raises"} THEN None
    ELSE IF provider = "short" THEN Some(n - 1)
    ELSE Some(n)

\* semantic_similarity(query, candidates) on n candidates: None when the
\* embeddings are not available or not one per text, else one (index,
\* cosine) pair per candidate
semantic_similarity(provider, n) ==
    IF try_embed_texts(provider, 1 + n) = None \/ try_embed_texts(provider, 1 + n)[1] # 1 + n
    THEN None
    ELSE Some([k \in 1..n |->
                <<k - 1, IF provider = "uniform" THEN Rat(1, 2)
                         ELSE IF provider = "opposed_first"
                              THEN (IF k = 1 THEN Rat(-1, 1) ELSE Rat(1, 2))
                         ELSE IF k = n THEN Rat(1, 1) ELSE Rat(0, 1)>>])

\* ------------------------------------------------------------------------
\* MatchEngine (grounded_gap_engine.py)
\* ------------------------------------------------------------------------
\* the maximal runs of alphanumeric characters of s, in order
AlnumRuns(s) ==
    LET starts == Ascending({i \in 1..Len(s) :
                     isalnum(Ch(s, i)) /\ (i = 1 \/ ~isalnum(Ch(s, i - 1)))})
    IN  [k \in 1..Len(starts) |->
            SubSeq(s, starts[k], starts[k] + RunLen(s, starts[k], Uppers \cup Lowers \cup Digits) - 1)]

_tokenize(s) == SelectSeq(AlnumRuns(lower(s)), LAMBDA t : Len(t) >= 3)

Range(f) == {f[i] : i \in DOMAIN f}

_jaccard(a, b) ==
    LET sa == Range(a)
        sb == Range(b)
    IN  IF sa = {} \/ sb = {} THEN Rat(0, 1)
        ELSE Rat(Cardinality(sa \cap sb), Cardinality(sa \cup sb))

\* stable insertion of x behind every element whose score is >= x.score
RECURSIVE InsertDesc(_, _)
InsertDesc(s, x) ==
    IF s = <<>> THEN <<x>>
    ELSE IF RLt(Head(s).score, x.score) THEN <<x>> \o s
    ELSE <<Head(s)>> \o InsertDesc(Tail(s), x)

\* list.sort(key=score, reverse=True): stable, descending
RECURSIVE SortDesc(_)
SortDesc(s) ==
    IF s = <<>> THEN <<>>
    ELSE InsertDesc(SortDesc(SubSeq(s, 1, Len(s) - 1)), s[Len(s)])

\* a tag bonus of 0.25 for each overlapping tag
TagBonusPerTag(tag_overlap) == Rat(25 * Cardinality(tag_overlap), 100)

\* tag_bonus = 0.20 + min(0.20, 0.05 * len(tag_overlap)) if tag_overlap
TagBonus(tag_overlap) ==
    IF tag_overlap # {}
    THEN RAdd(Rat(20, 100), RMin(Rat(20, 100), Rat(5 * Cardinality(tag_overlap), 100)))
    ELSE Rat(0, 1)

\* score = max(0.0, min(1.25, tok_sim + tag_bonus + 0.10 * confidence))
LexicalScore(tok_sim, tag_overlap, confidence) ==
    RMax(Rat(0, 1),
         RMin(Rat(125, 100),
              RAdd(RAdd(tok_sim, TagBonus(tag_overlap)), RMul(Rat(10, 100), confidence))))

\* "; ".join(rationale_parts) if rationale_parts else "weak_match"
OrWeakMatch(parts) == IF parts # <<>> THEN parts ELSE <<<<"weak_match">>>>

\* the rationale parts, numbers as the two decimals they are printed with
LexicalRationale(tok_sim, tag_overlap, confidence) ==
    OrWeakMatch(
        (IF RLe(Rat(10, 100), tok_sim)
         THEN <<<<"token_overlap", PyRound(RMul(tok_sim, Rat(100, 1)))>>>> ELSE <<>>)
        \o (IF tag_overlap # {} THEN <<<<"tags", SortedTags(tag_overlap)>>>> ELSE <<>>)
        \o (IF RLe(Rat(6, 10), confidence) THEN <<<<"strong_signal">>>> ELSE <<>>))

Scored(e, tok_sim, tag_overlap) ==
    [e         |-> e,
     score     |-> LexicalScore(tok_sim, tag_overlap, e.confidence),
     rationale |-> LexicalRationale(tok_sim, tag_overlap, e.confidence)]

\* the lexical score of one evidence item against a requirement
LexicalTriple(req_tokens, req_tag_set, e) ==
    Scored(e, _jaccard(req_tokens, _tokenize(e.chunk_text)), req_tag_set \cap Range(e.tags))

\* a loop that keeps the candidates with a score <= 0.05
ScoreAllKeepWeak(req_tokens, req_tag_set, evidence) ==
    SortDesc([i \in 1..Len(evidence) |-> LexicalTriple(req_tokens, req_tag_set, evidence[i])])

\* the loop `for e in evidence` (scores <= 0.05 are skipped) and the sort
ScoreAll(req_tokens, req_tag_set, evidence) ==
    SortDesc(SelectSeq([i \in 1..Len(evidence) |-> LexicalTriple(req_tokens, req_tag_set, evidence[i])],
                       LAMBDA t : ~RLe(t.score, Rat(5, 100))))

\* set(req_tags + ([req_competency] if req_competency else []))
ReqTagSet(req_tags, req_competency) ==
    Range(req_tags) \cup (IF req_competency # "" THEN {req_competency} ELSE {})

\* sim_by_idx.get(i, 0.0) for the (index, similarity) pairs of the provider
sim_by_idx_get(pairs, i) ==
    IF \E k \in 1..Len(pairs) : pairs[k][1] = i
    THEN pairs[CHOOSE k \in 1..Len(pairs) :
                  pairs[k][1] = i /\ \A h \in 1..Len(pairs) : pairs[h][1] = i => h <= k][2]
    ELSE Rat(0, 1)

\* a blend that replaces the lexical score by the weighted similarity
BlendReplace(t, sem) ==
    [e         |-> t.e,
     score     |-> RMin(Rat(125, 100), RMul(Rat(35, 100), sem)),
     rationale |-> Append(t.rationale, <<"semantic", PyRound(RMul(sem, Rat(100, 1)))>>)]

\* (e, min(1.25, base + 0.35 * sem), rat + "; semantic=...")
Blend(t, sem) ==
    [e         |-> t.e,
     score     |-> RMin(Rat(125, 100), RAdd(t.score, RMul(Rat(35, 100), sem))),
     rationale |-> Append(t.rationale, <<"semantic", PyRound(RMul(sem, Rat(100, 1)))>>)]

Blended(scored, N, pairs) ==
    [i \in 1..N |-> Blend(scored[i], RMax(Rat(0, 1), RMin(Rat(1, 1), sim_by_idx_get(pairs, i - 1))))]

\* a re-rank that blends whether or not the provider answered
RerankAlways(scored, N, sims) ==
    SortDesc(SortDesc([i \in 1..N |->
                          [e         |-> scored[i].e,
                           score     |-> scored[i].score,
                           rationale |-> Append(scored[i].rationale, <<"semantic", 0>>)]])
             \o SubSeq(scored, N + 1, Len(scored)))

\* the re-rank of the first N candidates when the provider answered
Rerank(scored, N, sims) ==
    IF sims # None
    THEN SortDesc(SortDesc(Blended(scored, N, sims[1])) \o SubSeq(scored, N + 1, Len(scored)))
    ELSE scored

MinOf(a, b) == IF a < b THEN a ELSE b

\* N = min(30, len(scored)): the candidates that are blended
MaxBlended == 30

\* if semantic_enabled() and scored: ...
SemanticRerank(scored, semantic, provider) ==
    IF semantic /\ scored # <<>>
    THEN Rerank(scored, MinOf(MaxBlended, Len(scored)),
                semantic_similarity(provider, MinOf(MaxBlended, Len(scored))))
    ELSE scored

\* scored[:top_k]
TopK(scored, top_k) == SubSeq(scored, 1, MinOf(Len(scored), top_k))

\* _best_evidence_for_requirement.  semantic is semantic_enabled(), provider
\* is the state of the similarity provider.
_best_evidence_for_requirement(req_text, req_competency, evidence, top_k, semantic, provider) ==
    TopK(SemanticRerank(ScoreAll(_tokenize(req_text),
                                 ReqTagSet(tag_and_extract_signals(req_text).tags, req_competency),
                                 evidence),
                        semantic, provider),
         top_k)

\* _classify with thresholds that exclude their own value
ClassifyAbove(match_strength, must_have) ==
    IF RLt(Rat(65, 100), match_strength) THEN "match"
    ELSE IF RLt(Rat(35, 100), match_strength) THEN "partial"
    ELSE IF must_have THEN "gap" ELSE "signal_gap"

\* ------------------------------------------------------------------------
\* ClassificationEngine (grounded_gap_engine.py)
\* ------------------------------------------------------------------------
_classify(match_strength, must_have) ==
    IF RLe(Rat(65, 100), match_strength) THEN "match"
    ELSE IF RLe(Rat(35, 100), match_strength) THEN "partial"
    ELSE IF must_have THEN "gap" ELSE "signal_gap"

_to_pct(v) == PyRound(RMul(RMax(Rat(0, 1), RMin(Rat(1, 1), v)), Rat(100, 1)))

RDiv(a, b) == Rat(a[1] * b[2], a[2] * b[1])

\* int(round((raw + 0.25) / 1.25 * 100)) is evaluated in binary floating
\* point.  Away from a tie the float rounds as the exact value does.  At an
\* exact tie k + 1/2 the float product is k + 1/2 itself (ties to even)
\* except for the k below, where it lands just under or just over the tie.
FloatTieBelow == {1, 43, 45, 53, 55, 57, 89, 99}
FloatTieAbove == {0, 10, 24, 28, 54, 56, 96}

\* round() of the float (raw + 0.25) / 1.25 * 100, v being its exact value
RoundScaled(v) ==
    LET q   == v[1] \div v[2]
        rem == v[1] % v[2]
    IN  IF 2 * rem # v[2] THEN PyRound(v)
        ELSE IF q \in FloatTieBelow THEN q
        ELSE IF q \in FloatTieAbove THEN q + 1
        ELSE PyRound(v)

Clamp(lo, v, hi) == IF v < lo THEN lo ELSE IF v > hi THEN hi ELSE v

\* ------------------------------------------------------------------------
\* EvidenceStore queries (grounded_extract.py)
\* ------------------------------------------------------------------------
\* "E-%06d"
EvidenceId(n) ==
    "E-" \o (IF n < 10 THEN "00000" ELSE IF n < 100 THEN "0000" ELSE IF n < 1000 THEN "000"
             ELSE IF n < 10000 THEN "00" ELSE IF n < 100000 THEN "0" ELSE "") \o Str(n)

EvidenceItem(r) ==
    [evidence_id |-> EvidenceId(r.id),
     source_type |-> r.source_type,
     source_name |-> r.source_name,
     section     |-> r.section,
     chunk_text  |-> r.chunk_text,
     tags        |-> r.tags,
     confidence  |-> r.confidence]

\* the WHERE clause of load_evidence_index
EvidenceSelected(r, resume_id, job_id) ==
    IF job_id = None THEN r.resume_id = resume_id
    ELSE r.resume_id = resume_id /\ (r.job_id = job_id \/ r.job_id = None)

\* load_evidence_index on the rows of evidence_chunks.  ORDER BY created_at
\* DESC leaves the order of rows of one second open, so the result is the
\* set of the lists the query may return.
load_evidence_index(rows, resume_id, job_id, limit) ==
    LET sel    == {i \in 1..Len(rows) : EvidenceSelected(rows[i], resume_id, job_id)}
        n      == Cardinality(sel)
        orders == {f \in [1..n -> sel] :
                     /\ \A a, b \in 1..n : a # b => f[a] # f[b]
                     /\ \A a, b \in 1..n : a < b => rows[f[a]].created_at >= rows[f[b]].created_at}
        m      == IF limit < 0 \/ n < limit THEN n ELSE limit    \* LIMIT -1: no limit
    IN  {[k \in 1..m |-> EvidenceItem(rows[f[k]])] : f \in orders}

DefaultEvidenceLimit == 5000

\* contributions without the penalty of a must-have gap
ContributionNoPenalty(classification) ==
    IF classification = "match" THEN Rat(1, 1)
    ELSE IF classification = "partial" THEN Rat(1, 2)
    ELSE Rat(0, 1)

\* ------------------------------------------------------------------------
\* GapAnalysisOrchestrator (grounded_gap_engine.py)
\* ------------------------------------------------------------------------
\* the score contribution of a classification
Contribution(classification) ==
    IF classification = "match" THEN Rat(1, 1)
    ELSE IF classification = "partial" THEN Rat(1, 2)
    ELSE IF classification = "gap" THEN Rat(-1, 4)
    ELSE Rat(0, 1)

\* an entry of ev_list that quotes the whole chunk
EvidenceQuoteWhole(t) ==
    [evidence_id    |-> t.e.evidence_id,
     source_type    |-> t.e.source_type,
     source_name    |-> t.e.source_name,
     section        |-> t.e.section,
     quote          |-> t.e.chunk_text,
     match_strength |-> t.score,
     rationale      |-> t.rationale]

\* one entry of ev_list, t being an (evidence, score, rationale) triple
EvidenceQuote(t) ==
    [evidence_id    |-> t.e.evidence_id,
     source_type    |-> t.e.source_type,
     source_name    |-> t.e.source_name,
     section        |-> t.e.section,
     quote          |-> SubSeq(t.e.chunk_text, 1, MinOf(Len(t.e.chunk_text), 600)),
     match_strength |-> t.score,
     rationale      |-> t.rationale]

\* the dict run_grounded_gap_analysis appends for one requirement
ResultRecord(req, req_text, competency, best, best_score, classification) ==
    [requirement_id     |-> req.requirement_id,
     category           |-> req.category,
     competency         |-> competency,
     text               |-> req_text,
     weight             |-> req.weight,
     must_have          |-> req.must_have,
     classification     |-> classification,
     match_strength     |-> best_score,
     match_strength_pct |-> _to_pct(best_score),
     evidence           |-> [k \in 1..Len(best) |-> EvidenceQuote(best[k])],
     missing_signals    |-> IF classification \in {"gap", "signal_gap"} THEN <<competency>> ELSE <<>>,
     followup_question  |-> IF classification \in {"partial", "gap", "signal_gap"}
                            THEN "Provide a specific example demonstrating '" \o req_text
                                 \o "'. Include scope (team/budget), stakeholders, and measurable outcomes."
                            ELSE "",
     confidence         |-> RMin(Rat(1, 1), RAdd(Rat(35, 100), RMul(Rat(1, 2), best_score)))]

\* classification = _classify(best_score, must_have=must_have)
Classified(req, req_text, competency, best, best_score) ==
    ResultRecord(req, req_text, competency, best, best_score, _classify(best_score, req.must_have))

\* best_score = float(best[0][1]) if best else 0.0
Matched(req, req_text, competency, best) ==
    Classified(req, req_text, competency, best, IF best # <<>> THEN best[1].score ELSE Rat(0, 1))

RequirementResultFor(req, req_text, competency, evidence, semantic, provider) ==
    Matched(req, req_text, competency,
            _best_evidence_for_requirement(req_text, competency, evidence, 3, semantic, provider))

\* the body of `for req in requirements` for a requirement with text
RequirementResult(req, req_text, evidence, semantic, provider) ==
    RequirementResultFor(req, req_text, IF req.competency # "" THEN req.competency ELSE "general",
                         evidence, semantic, provider)

\* total_weight += weight; score_accum += contrib * weight; results.append
Accumulate(acc, r) ==
    [results      |-> Append(acc.results, r),
     total_weight |-> acc.total_weight + r.weight,
     score_accum  |-> RAdd(acc.score_accum, RMul(Contribution(r.classification), Rat(r.weight, 1)))]

\* one iteration on acc = [results, total_weight, score_accum]
AnalysisStep(acc, req, req_text, evidence, semantic, provider) ==
    IF req_text = "" THEN acc
    ELSE Accumulate(acc, RequirementResult(req, req_text, evidence, semantic, provider))

\* `for req in requirements`
RECURSIVE AnalysisLoop(_, _, _, _, _)
AnalysisLoop(acc, requirements, evidence, semantic, provider) ==
    IF requirements = <<>> THEN acc
    ELSE AnalysisLoop(AnalysisStep(acc, Head(requirements), strip(Head(requirements).text),
                                   evidence, semantic, provider),
                      Tail(requirements), evidence, semantic, provider)

\* normalisation that maps a zero total weight as a raw score of zero
NormalizeZeroRaw(score_accum, total_weight) ==
    LET raw == IF total_weight <= 0 THEN Rat(0, 1) ELSE RDiv(score_accum, Rat(total_weight, 1))
    IN  Clamp(0, RoundScaled(RMul(RDiv(RAdd(raw, Rat(1, 4)), Rat(5, 4)), Rat(100, 1))), 100)

\* "Normalize score into 0-100"
NormalizeScore(score_accum, total_weight) ==
    IF total_weight <= 0 THEN 0
    ELSE LET raw == RDiv(score_accum, Rat(total_weight, 1))
         IN  Clamp(0, RoundScaled(RMul(RDiv(RAdd(raw, Rat(1, 4)), Rat(5, 4)), Rat(100, 1))), 100)

BucketNames == <<"match", "partial", "gap", "signal_gap">>

\* bucketing that files a partial under the matches
BucketOfLenient(classification) ==
    IF classification \in {"match", "partial"} THEN "match"
    ELSE IF classification = "gap" THEN "gap" ELSE "signal_gap"

\* the bucket a classification is filed under: buckets.get(cls, buckets["signal_gap"])
BucketOf(classification) ==
    IF classification \in Range(BucketNames) THEN classification ELSE "signal_gap"

\* the members of one bucket, as references (indices) into all_results in
\* the order of all_results: the lists share their dicts with all_results
Bucket(results, name) ==
    Ascending({i \in 1..Len(results) : BucketOf(results[i].classification) = name})

SummaryText(overall, results) ==
    "Overall grounded alignment: " \o Str(overall) \o "/100. "
    \o "Matches: " \o Str(Len(Bucket(results, "match")))
    \o ", Partial: " \o Str(Len(Bucket(results, "partial")))
    \o ", Gaps: " \o Str(Len(Bucket(results, "gap")))
    \o ", Signal gaps: " \o Str(Len(Bucket(results, "signal_gap"))) \o "."

\* the dict run_grounded_gap_analysis returns
ResultOf(results, overall) ==
    [overall_alignment_score |-> overall,
     summary                 |-> SummaryText(overall, results),
     requirements_total      |-> Len(results),
     matched_requirements    |-> Bucket(results, "match"),
     partial_gaps            |-> Bucket(results, "partial"),
     hard_gaps               |-> Bucket(results, "gap"),
     signal_gaps             |-> Bucket(results, "signal_gap"),
     all_results             |-> results]

Finish(acc) == ResultOf(acc.results, NormalizeScore(acc.score_accum, acc.total_weight))

\* run_grounded_gap_analysis once load_evidence_index has returned evidence
AnalysisResult(job_description, evidence, semantic, provider) ==
    Finish(AnalysisLoop([results |-> <<>>, total_weight |-> 0, score_accum |-> Rat(0, 1)],
                        extract_requirements_deterministic(job_description),
                        evidence, semantic, provider))

\* run_grounded_gap_analysis: the results it may return on the rows of
\* evidence_chunks (one per order load_evidence_index may return)
run_grounded_gap_analysis(rows, resume_id, job_id, job_description, evidence_limit, semantic, provider) ==
    {AnalysisResult(job_description, ev, semantic, provider) :
        ev \in load_evidence_index(rows, resume_id, job_id, evidence_limit)}

\* ------------------------------------------------------------------------
\* OverrideEngine and Rebucketer (objective_requirements.py)
\* ------------------------------------------------------------------------
DegreeWords == {"bachelor", "bs", "b.s", "bs.", "b.s.", "ba", "b.a", "ba.", "b.a."}

\* DEGREE_REGEX (re.I) matches at position i of s, low being s lowered
DEGREE_REGEX_At(s, low, i) ==
    /\ WordBoundary(s, i)
    /\ \E v \in DegreeWords : StartsAt(low, i, v) /\ WordBoundary(s, i + Len(v))

infer_has_bachelors(resume_text) ==
    \E low \in {lower(resume_text)} :
        /\ \E i \in 1..Len(resume_text) : DEGREE_REGEX_At(resume_text, low, i)
        /\ (Contains(low, "university") \/ Contains(low, "college"))

\* YEAR_REGEX matches at position i
YEAR_REGEX_At(s, i) ==
    /\ WordBoundary(s, i)
    /\ i + 3 <= Len(s)
    /\ \/ SubSeq(s, i, i + 1) = "19" /\ Ch(s, i + 2) \in {"7", "8", "9"}
       \/ SubSeq(s, i, i + 1) = "20" /\ Ch(s, i + 2) \in {"0", "1", "2"}
    /\ Ch(s, i + 3) \in Digits
    /\ WordBoundary(s, i + 4)

\* YEAR_REGEX.findall(txt) as integers, in text order
YearsFound(s) ==
    LET at == Ascending({i \in 1..Len(s) : YEAR_REGEX_At(s, i)})
    IN  [k \in 1..Len(at) |-> ParseInt(SubSeq(s, at[k], at[k] + 3))]

\* None if len(years) < 2 else max(years) - min(years)
YearsSpan(years) ==
    IF Len(years) < 2 THEN None
    ELSE Some((CHOOSE y \in Range(years) : \A z \in Range(years) : z <= y)
              - (CHOOSE y \in Range(years) : \A z \in Range(years) : y <= z))

infer_years_experience(resume_text) == YearsSpan(YearsFound(resume_text))

\* an override that does not look at the classification
AlwaysOverride(r) == TRUE

\* `if r.get("classification") != "match"`
NeedsOverride(r) == r.classification # "match"

\* the floor of the years override used for both overrides
SharedConfidenceFloor == Rat(70, 100)

\* the floor of confidence of the degree and of the years override
DegreeConfidenceFloor == Rat(75, 100)
YearsConfidenceFloor == Rat(70, 100)

\* an override that also clears the follow-up of the promoted record
PromoteAndClear(r, confidence_floor) ==
    [r EXCEPT !.classification = "match",
              !.match_strength = RMax(r.match_strength, Rat(85, 100)),
              !.match_strength_pct = IF r.match_strength_pct > 85 THEN r.match_strength_pct ELSE 85,
              !.confidence = RMax(r.confidence, confidence_floor),
              !.missing_signals = <<>>,
              !.followup_question = ""]

\* the four assignments of an override
Promote(r, confidence_floor) ==
    [r EXCEPT !.classification = "match",
              !.match_strength = RMax(r.match_strength, Rat(85, 100)),
              !.match_strength_pct = IF r.match_strength_pct > 85 THEN r.match_strength_pct ELSE 85,
              !.confidence = RMax(r.confidence, confidence_floor)]

\* audit["overrides"].append(...)
AuditEntry(rid, reason) ==
    [requirement_id |-> rid, reason |-> reason, new_classification |-> "match"]

\* `if rid in degree_req_ids and has_deg:` on st = [r, overrides]
DegreeOverride(st, has_deg, degree_req_ids) ==
    IF st.r.requirement_id \in degree_req_ids /\ has_deg /\ NeedsOverride(st.r)
    THEN [r         |-> Promote(st.r, DegreeConfidenceFloor),
          overrides |-> Append(st.overrides, AuditEntry(st.r.requirement_id, "degree_detected"))]
    ELSE st

\* `if rid in years_req_ids and yrs is not None and yrs >= years_threshold:`
YearsOverride(st, yrs, years_req_ids, years_threshold) ==
    IF /\ st.r.requirement_id \in years_req_ids
       /\ yrs # None
       /\ yrs[1] >= years_threshold
       /\ NeedsOverride(st.r)
    THEN [r         |-> Promote(st.r, YearsConfidenceFloor),
          overrides |-> Append(st.overrides,
                               AuditEntry(st.r.requirement_id, "years_detected(" \o Str(yrs[1]) \o ")"))]
    ELSE st

\* the body of `for r in all_results` on one record r
OverrideRecord(r, overrides, has_deg, yrs, degree_req_ids, years_req_ids, years_threshold) ==
    YearsOverride(DegreeOverride([r |-> r, overrides |-> overrides], has_deg, degree_req_ids),
                  yrs, years_req_ids, years_threshold)

\* record k is replaced by the record the body left
OverrideStep(all_results, k, step) ==
    [all_results |-> [all_results EXCEPT ![k] = step.r], overrides |-> step.overrides]

\* `for r in all_results`, from record k on, st = [all_results, overrides]
RECURSIVE OverrideLoop(_, _, _, _, _, _, _)
OverrideLoop(st, k, has_deg, yrs, degree_req_ids, years_req_ids, years_threshold) ==
    IF k > Len(st.all_results) THEN st
    ELSE OverrideLoop(OverrideStep(st.all_results, k,
                                   OverrideRecord(st.all_results[k], st.overrides, has_deg, yrs,
                                                  degree_req_ids, years_req_ids, years_threshold)),
                      k + 1, has_deg, yrs, degree_req_ids, years_req_ids, years_threshold)

\* return gap_result, audit
Overridden(gap_result, done) ==
    [gap_result |-> [gap_result EXCEPT !.all_results = done.all_results],
     audit      |-> [overrides |-> done.overrides]]

\* apply_objective_overrides: the mutated gap_result and the audit
apply_objective_overrides(gap_result, resume_text, degree_req_ids, years_req_ids, years_threshold) ==
    Overridden(gap_result,
               OverrideLoop([all_results |-> gap_result.all_results, overrides |-> <<>>], 1,
                            infer_has_bachelors(resume_text), infer_years_experience(resume_text),
                            degree_req_ids, years_req_ids, years_threshold))

\* a rebucketing that leaves the summary as it was
RebucketListsOnly(gap_result) ==
    [gap_result EXCEPT
        !.matched_requirements = Bucket(gap_result.all_results, "match"),
        !.partial_gaps         = Bucket(gap_result.all_results, "partial"),
        !.hard_gaps            = Bucket(gap_result.all_results, "gap"),
        !.signal_gaps          = Bucket(gap_result.all_results, "signal_gap")]

rebucket_gap_result(gap_result) ==
    [gap_result EXCEPT
        !.matched_requirements = Bucket(gap_result.all_results, "match"),
        !.partial_gaps         = Bucket(gap_result.all_results, "partial"),
        !.hard_gaps            = Bucket(gap_result.all_results, "gap"),
        !.signal_gaps          = Bucket(gap_result.all_results, "signal_gap"),
        !.summary              = SummaryText(gap_result.overall_alignment_score, gap_result.all_results)]

\* ------------------------------------------------------------------------
\* ExecutiveWeighting (executive_weighting_grounded.py)
\* ------------------------------------------------------------------------
EXEC_COMPETENCIES ==
    [executive_comms      |-> Rat(20, 10),
     financial_comms      |-> Rat(20, 10),
     corporate_narrative  |-> Rat(16, 10),
     product_comms        |-> Rat(14, 10),
     regulated_healthcare |-> Rat(12, 10)]

GENERAL_MULT == Rat(6, 10)

CLASS_SCORE ==
    [match |-> Rat(1, 1), partial |-> Rat(60, 100), gap |-> Rat(0, 1), signal_gap |-> Rat(25, 100)]

DefaultMaxAbsAdjustment == 8

\* (r.get("competency") or "general").strip()
ExecCompetency(r) == IF r.competency = "" THEN "general" ELSE strip(r.competency)

\* (r.get("classification") or "gap").strip()
ExecClassification(r) == IF r.classification = "" THEN "gap" ELSE strip(r.classification)

\* float(r.get("weight") or 1.0)
ExecWeight(r) == IF r.weight = 0 THEN Rat(1, 1) ELSE Rat(r.weight, 1)

\* EXEC_COMPETENCIES.get(comp, GENERAL_MULT)
CompMult(comp) ==
    IF comp \in DOMAIN EXEC_COMPETENCIES THEN EXEC_COMPETENCIES[comp] ELSE GENERAL_MULT

\* CLASS_SCORE.get(cls, 0.0)
ClassScore(cls) == IF cls \in DOMAIN CLASS_SCORE THEN CLASS_SCORE[cls] ELSE Rat(0, 1)

\* round(eff_w, 2)
Round2(v) == Rat(PyRound(RMul(v, Rat(100, 1))), 100)

\* the record appended to signals for r
ExecSignal(r, eff_w) ==
    [requirement_id |-> r.requirement_id,
     competency     |-> ExecCompetency(r),
     classification |-> ExecClassification(r),
     weight         |-> ExecWeight(r),
     eff_weight     |-> Round2(eff_w)]

\* one iteration of `for r in all_results` with eff_w = w * comp_mult, on
\* acc = [total_w, earned, must_have_exec_gaps, signals]
ExecAccumulate(acc, r, eff_w) ==
    [total_w |-> RAdd(acc.total_w, eff_w),
     earned  |-> RAdd(acc.earned, RMul(eff_w, ClassScore(ExecClassification(r)))),
     must_have_exec_gaps |->
         acc.must_have_exec_gaps
         + (IF r.must_have /\ ExecClassification(r) = "gap"
               /\ ExecCompetency(r) \in DOMAIN EXEC_COMPETENCIES THEN 1 ELSE 0),
     signals |-> IF ExecCompetency(r) \in DOMAIN EXEC_COMPETENCIES
                 THEN Append(acc.signals, ExecSignal(r, eff_w)) ELSE acc.signals]

ExecStep(acc, r) == ExecAccumulate(acc, r, RMul(ExecWeight(r), CompMult(ExecCompetency(r))))

RECURSIVE ExecLoop(_, _)
ExecLoop(acc, all_results) ==
    IF all_results = <<>> THEN acc ELSE ExecLoop(ExecStep(acc, Head(all_results)), Tail(all_results))

\* int(round((earned / total_w) * 100)) is evaluated in binary floating
\* point: away from a tie it is the nearest integer of the exact value v; at
\* an exact tie the float may land on either side
ExecWeightedScores(v) ==
    IF 2 * (v[1] % v[2]) = v[2] THEN {v[1] \div v[2], (v[1] \div v[2]) + 1} ELSE {PyRound(v)}

\* the adjustment without the cap on the upside
NoCap(raw_adj, must_have_exec_gaps) == raw_adj

\* "if multiple must-have exec gaps remain, cap upside"
CapUpside(raw_adj, must_have_exec_gaps) ==
    IF must_have_exec_gaps >= 2 /\ raw_adj > 0 THEN MinOf(raw_adj, 2) ELSE raw_adj

\* str(n) for an integer n
StrInt(n) == IF n < 0 THEN "-" \o Str(0 - n) ELSE Str(n)

\* the notes of the returned dict
ExecNotes(raw_adj, capped, adj, must_have_exec_gaps) ==
    (IF must_have_exec_gaps >= 2 /\ raw_adj > 0
     THEN <<"must-have exec gaps present; capped positive adjustment">> ELSE <<>>)
    \o (IF adj # capped THEN <<"bounded adjustment to " \o StrInt(adj)>> ELSE <<>>)

\* the dict returned once the loop is done, for one exec_weighted_score (an
\* integer; None or Some(integer) in the dict)
ExecReturn(acc, exec_weighted_score, base, max_abs_adjustment) ==
    [enabled             |-> TRUE,
     exec_weighted_score |-> Some(exec_weighted_score),
     adjustment          |-> Clamp(0 - max_abs_adjustment,
                                   CapUpside(exec_weighted_score - base, acc.must_have_exec_gaps),
                                   max_abs_adjustment),
     base_grounded_score |-> base,
     notes               |-> ExecNotes(exec_weighted_score - base,
                                       CapUpside(exec_weighted_score - base, acc.must_have_exec_gaps),
                                       Clamp(0 - max_abs_adjustment,
                                             CapUpside(exec_weighted_score - base,
                                                       acc.must_have_exec_gaps),
                                             max_abs_adjustment),
                                       acc.must_have_exec_gaps),
     exec_signals        |-> SubSeq(acc.signals, 1, MinOf(30, Len(acc.signals)))]

\* the dict returned without a score
ExecNoScore(enabled, note) ==
    [enabled |-> enabled, adjustment |-> 0, exec_weighted_score |-> None, notes |-> <<note>>]

\* the returns after the loop
ExecScored(acc, base, max_abs_adjustment) ==
    IF RLe(acc.total_w, Rat(0, 1)) THEN {ExecNoScore(TRUE, "total_w=0")}
    ELSE {ExecReturn(acc, x, base, max_abs_adjustment) :
             x \in ExecWeightedScores(RMul(RDiv(acc.earned, acc.total_w), Rat(100, 1)))}

\* executive_weighted_score_from_gap_result: the dicts it may return;
\* gap_result is None or Some(dict)
executive_weighted_score_from_gap_result(gap_result, max_abs_adjustment, enable) ==
    IF ~enable \/ gap_result = None THEN {ExecNoScore(FALSE, "exec weighting disabled")}
    ELSE IF gap_result[1].all_results = <<>> THEN {ExecNoScore(TRUE, "no all_results")}
    ELSE ExecScored(ExecLoop([total_w |-> Rat(0, 1), earned |-> Rat(0, 1),
                              must_have_exec_gaps |-> 0, signals |-> <<>>],
                             gap_result[1].all_results),
                    gap_result[1].overall_alignment_score, max_abs_adjustment)

\* a gap result with the adjustment written into its score
AfterWeightingAdjusted(gap_result, out) ==
    IF gap_result = None THEN gap_result
    ELSE Some([gap_result[1] EXCEPT
                  !.overall_alignment_score = gap_result[1].overall_alignment_score + out.adjustment])

\* the caller's gap_result after the call returned out: the function reads
\* the dict and its records and assigns to none of them
AfterWeighting(gap_result, out) == gap_result

\* ------------------------------------------------------------------------
\* Texts the builds are called with
\* ------------------------------------------------------------------------
ResumeIds == {1}
JobIds == {None, Some(1)}

\* three sections, two of them with the same text
ResumeTextA == "Led crisis team\nSkills\nfda\nSkills\nfda"
ResumeTextB == "fda"
IngestResumeTexts == {ResumeTextA, ResumeTextB}
IngestPortfolios == {<<>>, <<"Press release on FDA approval">>}

\* ------------------------------------------------------------------------
\* EvidenceStore writes (grounded_extract.py, build_evidence_cache.py,
\* schema_grounded_gap.py)
\* ------------------------------------------------------------------------
\* two rows fall under UNIQUE(resume_id, job_id, source_type, source_name,
\* content_hash) of evidence_chunks.  job_id is the one nullable column of
\* the key, and a UNIQUE constraint never takes two NULLs as equal.
EvidenceKeyConflict(r1, r2) ==
    /\ r1.resume_id = r2.resume_id
    /\ r1.job_id # None /\ r2.job_id # None /\ r1.job_id = r2.job_id
    /\ r1.source_type = r2.source_type
    /\ r1.source_name = r2.source_name
    /\ r1.content_hash = r2.content_hash

\* the row upsert_evidence_chunks binds for chunk ch with signals t
BoundRow(id, resume_id, job_id, source_type, source_name, section, ch, t, created_at) ==
    [id           |-> id,
     resume_id    |-> resume_id,
     job_id       |-> job_id,
     source_type  |-> source_type,
     source_name  |-> source_name,
     section      |-> section,
     chunk_text   |-> ch,
     tags         |-> t.tags,
     confidence   |-> t.confidence,
     content_hash |-> _hash_text(ch),
     created_at   |-> created_at]

\* the row upsert_evidence_chunks binds for chunk ch (already stripped)
EvidenceRow(id, resume_id, job_id, source_type, source_name, section, ch, created_at) ==
    BoundRow(id, resume_id, job_id, source_type, source_name, section, ch,
             tag_and_extract_signals(ch), created_at)

\* INSERT OR IGNORE INTO evidence_chunks: rows are kept in rowid order, the
\* AUTOINCREMENT id of a new row is one more than the number of rows (no
\* code deletes from the table)
InsertOrIgnore(rows, row) ==
    IF \E i \in 1..Len(rows) : EvidenceKeyConflict(rows[i], row) THEN rows
    ELSE Append(rows, row)

\* `ch = (ch or "").strip(); if not ch: continue`, then the INSERT
UpsertStripped(rows, resume_id, job_id, source_type, source_name, section, ch, created_at) ==
    IF ch = "" THEN rows
    ELSE InsertOrIgnore(rows, EvidenceRow(Len(rows) + 1, resume_id, job_id, source_type,
                                          source_name, section, ch, created_at))

\* one iteration of `for ch in chunks` of upsert_evidence_chunks
UpsertChunk(rows, resume_id, job_id, source_type, source_name, section, chunk, created_at) ==
    UpsertStripped(rows, resume_id, job_id, source_type, source_name, section, strip(chunk), created_at)

\* [c[1] for c in chunks]: the texts of (section, text) pairs
TextsOf(pairs) == [k \in 1..Len(pairs) |-> pairs[k][2]]

\* the chunk texts build_evidence_cache_for_job passes for one text
ChunkTexts(text) == TextsOf(chunk_text(text, DefaultMaxChars, DefaultMinChars))

\* the upsert_evidence_chunks calls of build_evidence_cache_for_job, in order
BuildCalls(resume_text, portfolio_texts) ==
    <<[source_type |-> "resume", source_name |-> "resume", section |-> "resume",
       chunks |-> ChunkTexts(resume_text)]>>
    \o [idx \in 1..Len(portfolio_texts) |->
           [source_type |-> "portfolio", source_name |-> "portfolio_" \o Str(idx),
            section |-> "portfolio", chunks |-> ChunkTexts(portfolio_texts[idx])]]

\* upsert_evidence_chunks run alone, from chunk k on
RECURSIVE UpsertFrom(_, _, _, _, _, _)
UpsertFrom(rows, resume_id, job_id, call, k, created_at) ==
    IF k > Len(call.chunks) THEN rows
    ELSE UpsertFrom(UpsertChunk(rows, resume_id, job_id, call.source_type, call.source_name,
                                call.section, call.chunks[k], created_at),
                    resume_id, job_id, call, k + 1, created_at)

\* build_evidence_cache_for_job run alone, from call c on
RECURSIVE BuildFrom(_, _, _, _, _, _)
BuildFrom(rows, resume_id, job_id, calls, c, created_at) ==
    IF c > Len(calls) THEN rows
    ELSE BuildFrom(UpsertFrom(rows, resume_id, job_id, calls[c], 1, created_at),
                   resume_id, job_id, calls, c + 1, created_at)

build_evidence_cache_for_job(rows, resume_id, job_id, resume_text, portfolio_texts, created_at) ==
    BuildFrom(rows, resume_id, job_id, BuildCalls(resume_text, portfolio_texts), 1, created_at)

\* ------------------------------------------------------------------------
\* Portfolio items (portfolio_store.py, schema_grounded_gap.py)
\* ------------------------------------------------------------------------
\* save_portfolio_item for a raw_text that is not empty once stripped: the
\* rows of portfolio_items after INSERT and commit
save_portfolio_item(rows, resume_id, job_id, raw_text, created_at) ==
    Append(rows, [id |-> Len(rows) + 1, resume_id |-> resume_id, job_id |-> job_id,
                  source_name |-> "Portfolio (pasted)", source_type |-> "paste", url |-> None,
                  raw_text |-> strip(raw_text), created_at |-> created_at])

\* list_portfolio_items.  ORDER BY created_at DESC leaves the order of rows
\* of one second open, so the result is the set of the lists the query may
\* return.
list_portfolio_items(rows, resume_id, job_id, limit) ==
    LET sel    == {i \in 1..Len(rows) :
                     IF job_id = None THEN rows[i].resume_id = resume_id
                     ELSE /\ rows[i].resume_id = resume_id
                          /\ (rows[i].job_id = job_id \/ rows[i].job_id = None)}
        n      == Cardinality(sel)
        orders == {f \in [1..n -> sel] :
                     /\ \A a, b \in 1..n : a # b => f[a] # f[b]
                     /\ \A a, b \in 1..n : a < b => rows[f[a]].created_at >= rows[f[b]].created_at}
        m      == IF limit < 0 \/ n < limit THEN n ELSE limit
    IN  {[k \in 1..m |-> rows[f[k]]] : f \in orders}

\* get_portfolio_texts: the stripped raw texts that are not empty
get_portfolio_texts(rows, resume_id, job_id, limit) ==
    {SelectSeq([k \in 1..Len(items) |-> strip(items[k].raw_text)], LAMBDA txt : txt # "") :
        items \in list_portfolio_items(rows, resume_id, job_id, limit)}

\* limit=50 of the call in main.py
PortfolioLimit == 50

\* ------------------------------------------------------------------------
\* Gap result persistence (grounded_gap_engine.py, schema_grounded_gap.py)
\* ------------------------------------------------------------------------
\* what json.dumps writes for an in-memory result: the bucket lists hold the
\* same dicts as all_results and are written out as copies of them
ResultValue(g) ==
    [g EXCEPT !.matched_requirements = [k \in 1..Len(g.matched_requirements) |-> g.all_results[g.matched_requirements[k]]],
              !.partial_gaps         = [k \in 1..Len(g.partial_gaps) |-> g.all_results[g.partial_gaps[k]]],
              !.hard_gaps            = [k \in 1..Len(g.hard_gaps) |-> g.all_results[g.hard_gaps[k]]],
              !.signal_gaps          = [k \in 1..Len(g.signal_gaps) |-> g.all_results[g.signal_gaps[k]]]]

\* json.dumps(result, ensure_ascii=False) and json.loads(text): the text
\* holds the value of the result (str, int, float, bool, list and dict
\* with str keys), which json.loads gives back
json_dumps(g) == <<"json", ResultValue(g)>>
json_loads(j) == j[2]

\* INSERT OR IGNORE in place of the upsert: a conflicting row is kept
GapInsertOrIgnore(rows, resume_id, job_id, result_json, created_at) ==
    IF \E i \in 1..Len(rows) : rows[i].resume_id = resume_id /\ rows[i].job_id = job_id
    THEN rows
    ELSE Append(rows, [id |-> Len(rows) + 1, resume_id |-> resume_id, job_id |-> job_id,
                       result_json |-> result_json, created_at |-> created_at])

\* INSERT INTO grounded_gap_results ... ON CONFLICT(resume_id, job_id) DO UPDATE
GapUpsert(rows, resume_id, job_id, result_json, created_at) ==
    LET hit == {i \in 1..Len(rows) : rows[i].resume_id = resume_id /\ rows[i].job_id = job_id}
    IN  IF hit # {}
        THEN [i \in 1..Len(rows) |->
                IF i \in hit THEN [rows[i] EXCEPT !.result_json = result_json, !.created_at = created_at]
                ELSE rows[i]]
        ELSE Append(rows, [id |-> Len(rows) + 1, resume_id |-> resume_id, job_id |-> job_id,
                           result_json |-> result_json, created_at |-> created_at])

\* load_grounded_gap_result: None when no row has the key
load_grounded_gap_result(rows, resume_id, job_id) ==
    LET hit == {i \in 1..Len(rows) : rows[i].resume_id = resume_id /\ rows[i].job_id = job_id}
    IN  IF hit = {} THEN None
        ELSE Some(json_loads(rows[CHOOSE i \in hit : \A j \in hit : i <= j].result_json))

\* ------------------------------------------------------------------------
\* Inputs and bounds
\* ------------------------------------------------------------------------
\* the worked example of the testable properties
ExampleReqText == "Lead crisis communications for a public healthcare company"
ExampleEvText == "Led crisis response team of 12 during FDA inquiry, protected $50M brand value"

\* two connections to the one database file
Workers == {1, 2}

\* calls of build_evidence_cache_for_job started in one behaviour
MaxBuilds == 2
\* calls of save_grounded_gap_result started in one behaviour
MaxSaves == 3
\* seconds the clock of datetime('now') advances in one behaviour
MaxClock == 2

\* chunk_text of the texts a build is called with, computed once per text
IngestCalls ==
    [a \in IngestResumeTexts \X IngestPortfolios |-> BuildCalls(a[1], a[2])]

\* the resume and the portfolio document of the analysed candidate
GapResumeText == "Led crisis response team of 12 during FDA inquiry, protected $50M brand value"
GapPortfolioText == "Press release on FDA approval for a public healthcare company"

\* rows of evidence_chunks after one build for resume 1 and job 1
GapRows ==
    build_evidence_cache_for_job(<<>>, 1, Some(1), GapResumeText, <<GapPortfolioText>>, 1)

\* job descriptions: empty, blank, without bullets, and two with required
\* and preferred requirements of every class
GapJobDescriptions ==
    {"", " \n ", "About us\nWe are hiring.",
     "Qualifications\n- Lead crisis communications\n- Bachelor degree\nPreferred\n- 15 years experience\n- Press release on FDA approval for a public healthcare company",
     "Responsibilities\n- Led crisis response team during FDA inquiry\n- Bachelor degree\nPreferred\n- Crisis experience\n- Sailing"}

\* the results run_grounded_gap_analysis may return on GapRows
GapResults ==
    UNION {run_grounded_gap_analysis(GapRows, 1, Some(1), jd, DefaultEvidenceLimit, FALSE, "unavailable") :
              jd \in GapJobDescriptions}

VARIABLES
    evidence_chunks,        \* committed rows of table evidence_chunks, in rowid order
    grounded_gap_results,   \* committed rows of table grounded_gap_results
    portfolio_items,        \* committed rows of table portfolio_items, in rowid order
    txn,                    \* uncommitted tables of the connection holding the write lock
    writer,                 \* the connection holding the write lock of the database, or 0
    now,                    \* datetime('now'), in seconds
    pc,                     \* per connection: what it is executing
    run,                    \* per connection: its build_evidence_cache_for_job call
    started,                \* calls started so far
    completed,              \* arguments of the builds that ran to the end
    finished,               \* per connection: the outcome of its last build
    saving,                 \* per connection: its save_grounded_gap_result call
    last_saved,             \* per (resume_id, job_id): the last committed save
    loaded,                 \* the last load_grounded_gap_result call and its value
    mem,                    \* the gap result and the audit the calling process holds
    applied                 \* a pure function applied to arguments, and its value

vars == <<evidence_chunks, grounded_gap_results, portfolio_items, txn, writer, now, pc, run,
          started, completed, finished, saving, last_saved, loaded, mem, applied>>

\* the tables, the connections and what is recorded of their calls
store == <<evidence_chunks, grounded_gap_results, portfolio_items, txn, writer, now, pc, run,
           started, completed, finished, saving, last_saved, loaded>>

NoTxn == [evidence_chunks |-> <<>>, grounded_gap_results |-> <<>>]
NoRun == [resume_id |-> 0, job_id |-> None, resume_text |-> "", portfolio_texts |-> <<>>,
          calls |-> <<>>, call |-> 0, idx |-> 0, inserted |-> 0, repeat |-> FALSE]
NoOutcome == [status |-> "none", args |-> <<>>, repeat |-> FALSE, inserted |-> 0]

SaveKeys == {<<1, 1>>, <<1, 2>>}

StoreInit ==
    /\ evidence_chunks = <<>>
    /\ grounded_gap_results = <<>>
    /\ portfolio_items = <<>>
    /\ txn = NoTxn
    /\ writer = 0
    /\ now = 1
    /\ pc = [w \in Workers |-> "idle"]
    /\ run = [w \in Workers |-> NoRun]
    /\ started = 0
    /\ completed = {}
    /\ finished = [w \in Workers |-> NoOutcome]
    /\ saving = [w \in Workers |-> None]
    /\ last_saved = [k \in SaveKeys |-> None]
    /\ loaded = None

NoAnalysis == [job_description |-> "", gap_result |-> None, audit |-> None, before |-> None,
               last_op |-> "none", args |-> None, repeat |-> FALSE, calls |-> 0]
NoCall == [fn |-> "none", args |-> <<>>, value |-> None]

\* the tables as connection w sees them
TablesOf(w) ==
    IF writer = w THEN txn
    ELSE [evidence_chunks |-> evidence_chunks, grounded_gap_results |-> grounded_gap_results]

\* datetime('now') moves on
Tick ==
    /\ now < MaxClock
    /\ now' = now + 1
    /\ UNCHANGED <<portfolio_items, evidence_chunks, grounded_gap_results, txn, writer, pc, run, started,
                   completed, finished, saving, last_saved, loaded, mem, applied>>

\* ------------------------------------------------------------------------
\* Ingestion: build_evidence_cache_for_job on two connections
\* ------------------------------------------------------------------------
BuildArgs(r) == <<r.resume_id, r.job_id, r.resume_text, r.portfolio_texts>>

\* build_evidence_cache_for_job is called: chunk_text of every text
Build(w, resume_id, job_id, resume_text, portfolio_texts) ==
    /\ pc[w] = "idle"
    /\ started < MaxBuilds
    /\ started' = started + 1
    /\ pc' = [pc EXCEPT ![w] = "upsert"]
    /\ run' = [run EXCEPT ![w] =
                 [resume_id |-> resume_id, job_id |-> job_id, resume_text |-> resume_text,
                  portfolio_texts |-> portfolio_texts,
                  calls |-> IngestCalls[<<resume_text, portfolio_texts>>],
                  call |-> 1, idx |-> 1, inserted |-> 0,
                  repeat |-> <<resume_id, job_id, resume_text, portfolio_texts>> \in completed]]
    /\ UNCHANGED <<portfolio_items, evidence_chunks, grounded_gap_results, txn, writer, now, completed, finished,
                   saving, last_saved, loaded, mem, applied>>

\* the chunk upsert_evidence_chunks of connection w is at
CurrentCall(w) == run[w].calls[run[w].call]
AtChunk(w) == pc[w] = "upsert" /\ run[w].idx <= Len(CurrentCall(w).chunks)

\* the INSERT OR IGNORE of connection w left the table as rows
Inserted(w, base, rows) ==
    /\ writer' = w
    /\ txn' = [base EXCEPT !.evidence_chunks = rows]
    /\ run' = [run EXCEPT ![w].idx = run[w].idx + 1,
                          ![w].inserted = run[w].inserted + Len(rows) - Len(base.evidence_chunks)]

\* the INSERT OR IGNORE of connection w for chunk on the tables it sees
InsertInto(w, base, call, chunk) ==
    Inserted(w, base, UpsertChunk(base.evidence_chunks, run[w].resume_id, run[w].job_id,
                                  call.source_type, call.source_name, call.section, chunk, now))

\* one iteration of `for ch in chunks`: the INSERT OR IGNORE takes the write
\* lock of the database unless another connection holds it
UpsertStep(w) ==
    /\ AtChunk(w)
    /\ IF strip(CurrentCall(w).chunks[run[w].idx]) = ""
       THEN /\ run' = [run EXCEPT ![w].idx = run[w].idx + 1]
            /\ UNCHANGED <<txn, writer>>
       ELSE /\ writer \in {0, w}
            /\ InsertInto(w, TablesOf(w), CurrentCall(w), CurrentCall(w).chunks[run[w].idx])
    /\ UNCHANGED <<portfolio_items, evidence_chunks, grounded_gap_results, now, pc, started, completed, finished,
                   saving, last_saved, loaded, mem, applied>>

\* conn.commit() at the end of upsert_evidence_chunks, and the return to
\* build_evidence_cache_for_job: the next call, or the end of the build
UpsertCommit(w) ==
    /\ pc[w] = "upsert"
    /\ run[w].idx > Len(CurrentCall(w).chunks)
    /\ IF writer = w
       THEN /\ evidence_chunks' = txn.evidence_chunks
            /\ writer' = 0
            /\ txn' = NoTxn
       ELSE UNCHANGED <<evidence_chunks, writer, txn>>
    /\ IF run[w].call < Len(run[w].calls)
       THEN /\ run' = [run EXCEPT ![w].call = run[w].call + 1, ![w].idx = 1]
            /\ UNCHANGED <<pc, completed, finished>>
       ELSE /\ pc' = [pc EXCEPT ![w] = "idle"]
            /\ run' = [run EXCEPT ![w] = NoRun]
            /\ completed' = completed \cup {BuildArgs(run[w])}
            /\ finished' = [finished EXCEPT ![w] =
                              [status |-> "done", args |-> BuildArgs(run[w]),
                               repeat |-> run[w].repeat, inserted |-> run[w].inserted]]
    /\ UNCHANGED <<portfolio_items, grounded_gap_results, now, started, saving, last_saved, loaded, mem, applied>>

\* the INSERT finds the database locked by the other connection until the
\* busy timeout runs out: sqlite3.OperationalError ends the build
Busy(w) ==
    /\ AtChunk(w)
    /\ strip(CurrentCall(w).chunks[run[w].idx]) # ""
    /\ writer \notin {0, w}
    /\ pc' = [pc EXCEPT ![w] = "idle"]
    /\ run' = [run EXCEPT ![w] = NoRun]
    /\ finished' = [finished EXCEPT ![w] =
                      [status |-> "error", args |-> BuildArgs(run[w]),
                       repeat |-> run[w].repeat, inserted |-> run[w].inserted]]
    /\ UNCHANGED <<portfolio_items, evidence_chunks, grounded_gap_results, txn, writer, now, started, completed,
                   saving, last_saved, loaded, mem, applied>>

Init == StoreInit /\ mem = NoAnalysis /\ applied = NoCall

Next ==
    \/ \E w \in Workers, resume_id \in ResumeIds, job_id \in JobIds,
          resume_text \in IngestResumeTexts, portfolio_texts \in IngestPortfolios :
          Build(w, resume_id, job_id, resume_text, portfolio_texts)
    \/ \E w \in Workers : UpsertStep(w)
    \/ \E w \in Workers : UpsertCommit(w)
    \/ \E w \in Workers : Busy(w)

Spec == Init /\ [][Next]_vars

\* ------------------------------------------------------------------------
\* Persistence: save_grounded_gap_result and load_grounded_gap_result
\* ------------------------------------------------------------------------
\* cur.execute(INSERT ... ON CONFLICT ... DO UPDATE) of save_grounded_gap_result
SaveExecute(w, resume_id, job_id, result) ==
    /\ pc[w] = "idle"
    /\ started < MaxSaves
    /\ writer = 0
    /\ started' = started + 1
    /\ writer' = w
    /\ txn' = [TablesOf(w) EXCEPT
                 !.grounded_gap_results = GapUpsert(grounded_gap_results, resume_id, job_id,
                                                    json_dumps(result), now)]
    /\ pc' = [pc EXCEPT ![w] = "save"]
    /\ saving' = [saving EXCEPT ![w] = Some([resume_id |-> resume_id, job_id |-> job_id,
                                             result |-> result])]
    /\ UNCHANGED <<portfolio_items, evidence_chunks, grounded_gap_results, now, run, completed, finished,
                   last_saved, loaded, mem, applied>>

\* the INSERT finds the database locked by the other connection until the
\* busy timeout runs out: sqlite3.OperationalError, nothing is written
SaveBusy(w) ==
    /\ pc[w] = "idle"
    /\ started < MaxSaves
    /\ writer \notin {0, w}
    /\ started' = started + 1
    /\ UNCHANGED <<portfolio_items, evidence_chunks, grounded_gap_results, txn, writer, now, pc, run, completed,
                   finished, saving, last_saved, loaded, mem, applied>>

\* conn.commit() of save_grounded_gap_result
SaveCommit(w) ==
    /\ pc[w] = "save"
    /\ writer = w
    /\ grounded_gap_results' = txn.grounded_gap_results
    /\ writer' = 0
    /\ txn' = NoTxn
    /\ pc' = [pc EXCEPT ![w] = "idle"]
    /\ last_saved' = [last_saved EXCEPT ![<<saving[w][1].resume_id, saving[w][1].job_id>>] =
                         Some(saving[w][1].result)]
    /\ saving' = [saving EXCEPT ![w] = None]
    /\ loaded' = None
    /\ UNCHANGED <<portfolio_items, evidence_chunks, now, run, started, completed, finished, mem, applied>>

\* load_grounded_gap_result on an idle connection; loaded keeps the value
\* until the next commit
Load(w, resume_id, job_id) ==
    /\ pc[w] = "idle"
    /\ loaded' = Some([resume_id |-> resume_id, job_id |-> job_id,
                       value |-> load_grounded_gap_result(grounded_gap_results, resume_id, job_id)])
    /\ UNCHANGED <<portfolio_items, evidence_chunks, grounded_gap_results, txn, writer, now, pc, run, started,
                   completed, finished, saving, last_saved, mem, applied>>

NextSave ==
    \/ \E w \in Workers, k \in SaveKeys, result \in GapResults : SaveExecute(w, k[1], k[2], result)
    \/ \E w \in Workers : SaveBusy(w)
    \/ \E w \in Workers : SaveCommit(w)
    \/ \E w \in Workers, k \in SaveKeys : Load(w, k[1], k[2])
    \/ Tick

SpecSave == Init /\ [][NextSave]_vars

\* the rows of grounded_gap_results with key k
RowsOfKey(k) ==
    {i \in 1..Len(grounded_gap_results) :
        grounded_gap_results[i].resume_id = k[1] /\ grounded_gap_results[i].job_id = k[2]}

\* C3: for every key (resume_id, job_id) the table holds at most one row;
\* it holds none before the first committed save of the key, and afterwards
\* the row's content is the result of the last committed save of that key
\* whatever was saved under other keys; a load returns exactly that content.
C3_UpsertLastWriterWins ==
    /\ \A k \in SaveKeys :
          /\ Cardinality(RowsOfKey(k)) <= 1
          /\ last_saved[k] = None => RowsOfKey(k) = {}
          /\ last_saved[k] # None =>
                \E i \in RowsOfKey(k) :
                    json_loads(grounded_gap_results[i].result_json) = ResultValue(last_saved[k][1])
    /\ loaded # None =>
          loaded[1].value = (IF last_saved[<<loaded[1].resume_id, loaded[1].job_id>>] = None THEN None
                             ELSE Some(ResultValue(last_saved[<<loaded[1].resume_id, loaded[1].job_id>>][1])))

\* a key was saved twice with different results while the other key holds
\* its own result, and the load of the rewritten key has returned
C3_Witness ==
    /\ Len(grounded_gap_results) = 2
    /\ \E i \in 1..2 : grounded_gap_results[i].created_at > 1 /\ grounded_gap_results[i].id = 1
    /\ last_saved[<<1, 1>>] # None /\ last_saved[<<1, 2>>] # None
    /\ last_saved[<<1, 1>>] # last_saved[<<1, 2>>]
    /\ loaded # None /\ loaded[1].value # None

\* two committed rows agree on the whole key of the table
SameEvidenceKey(r1, r2) ==
    /\ r1.resume_id = r2.resume_id
    /\ r1.job_id = r2.job_id
    /\ r1.source_type = r2.source_type
    /\ r1.source_name = r2.source_name
    /\ r1.content_hash = r2.content_hash

\* C1: a build that repeats the arguments of a build that ran to the end
\* inserts no row, and no two rows of evidence_chunks agree on
\* (resume_id, job_id, source_type, source_name, content_hash).
C1_IdempotentIngestion ==
    /\ \A w \in Workers : run[w].repeat => run[w].inserted = 0
    /\ \A w \in Workers : finished[w].repeat => finished[w].inserted = 0
    /\ \A i, j \in 1..Len(evidence_chunks) :
          i # j => ~SameEvidenceKey(evidence_chunks[i], evidence_chunks[j])

\* the committed rows that hold chunk text c of a source of a build
RowsOfChunk(args, source_type, source_name, c) ==
    {i \in 1..Len(evidence_chunks) :
        /\ evidence_chunks[i].resume_id = args[1]
        /\ evidence_chunks[i].job_id = args[2]
        /\ evidence_chunks[i].source_type = source_type
        /\ evidence_chunks[i].source_name = source_name
        /\ evidence_chunks[i].chunk_text = c}

\* C2: once two builds of the two connections with the same arguments have
\* both ended, in whatever order their inserts ran, the store holds exactly
\* one row per distinct chunk of each of their texts.
C2_ConcurrentNoDoubleCount ==
    \A w1, w2 \in Workers :
        (/\ w1 # w2
         /\ finished[w1].status = "done"
         /\ finished[w2].status = "done"
         /\ finished[w1].args = finished[w2].args)
        => LET args  == finished[w1].args
               calls == IngestCalls[<<args[3], args[4]>>]
           IN  \A k \in 1..Len(calls) : \A c \in Range(calls[k].chunks) :
                  Cardinality(RowsOfChunk(args, calls[k].source_type, calls[k].source_name, c)) = 1

\* the (section, text) chunks chunk_text returns for the resume texts
ResumeChunks ==
    {[text |-> t, chunks |-> chunk_text(t, DefaultMaxChars, DefaultMinChars)] :
        t \in IngestResumeTexts}

\* C19: once a build has ended, every (section, text) chunk that chunk_text
\* returned for its resume text is stored as a row of its own, chunks with
\* the same text under different section labels included: the store holds
\* as many rows with a chunk text as chunk_text returned chunks with it.
C19_SectionInContentHash ==
    \A w \in Workers :
        finished[w].status = "done" =>
            \A rc \in ResumeChunks :
                rc.text = finished[w].args[3] =>
                    \A k \in 1..Len(rc.chunks) :
                        LET same == {h \in 1..Len(rc.chunks) : rc.chunks[h][2] = rc.chunks[k][2]}
                            rows == RowsOfChunk(finished[w].args, "resume", "resume", rc.chunks[k][2])
                        IN  Cardinality(rows) >= Cardinality(same)
\* ------------------------------------------------------------------------
\* _classify applied to scores of [0, 1.25]
\* ------------------------------------------------------------------------
\* the scores are the multiples of 1/ScoreSteps
ScoreSteps == 1000

ClassifyScores ==
    {Rat(k, ScoreSteps) : k \in 0..((5 * ScoreSteps) \div 4)}
    \cup {Rat(650, 1000), Rat(649, 1000), Rat(350, 1000), Rat(349, 1000)}

InitClassify ==
    /\ StoreInit
    /\ mem = NoAnalysis
    /\ applied \in {[fn |-> "_classify", args |-> <<s, m>>, value |-> None] :
                       s \in ClassifyScores, m \in BOOLEAN}

Classify ==
    /\ applied.fn = "_classify"
    /\ applied.value = None
    /\ applied' = [applied EXCEPT !.value = Some(_classify(applied.args[1], applied.args[2]))]
    /\ UNCHANGED <<store, mem>>

NextClassify == Classify

SpecClassify == InitClassify /\ [][NextClassify]_vars

\* C7: for every score s of [0, 1.25] and every must_have, _classify gives
\* match iff s >= 0.65, partial iff 0.35 <= s < 0.65, and below 0.35 gap
\* when must_have and signal_gap when not; 0.65 is match, 0.649 and 0.35 are
\* partial, 0.349 is gap or signal_gap.
C7_ClassificationThresholds ==
    (applied.fn = "_classify" /\ applied.value # None) =>
        LET n == applied.args[1][1]
            d == applied.args[1][2]
            m == applied.args[2]
            c == applied.value[1]
        IN  /\ (c = "match") <=> (100 * n >= 65 * d)
            /\ (c = "partial") <=> (100 * n >= 35 * d /\ 100 * n < 65 * d)
            /\ (100 * n < 35 * d) => c = (IF m THEN "gap" ELSE "signal_gap")
            /\ (1000 * n = 650 * d) => c = "match"
            /\ (1000 * n = 649 * d \/ 1000 * n = 350 * d) => c = "partial"
            /\ (1000 * n = 349 * d) => c = (IF m THEN "gap" ELSE "signal_gap")

\* _classify has returned partial for 0.649
C7_Witness ==
    /\ applied.fn = "_classify"
    /\ applied.args[1] = Rat(649, 1000)
    /\ applied.value = Some("partial")

\* ------------------------------------------------------------------------
\* The aggregate score of a list of classified requirements
\* ------------------------------------------------------------------------
\* requirements in one list
MaxReqs == 4

\* a classified requirement as the loop sees it: weight 3 and must_have for
\* a required one, weight 1 for a preferred one; gap only for must_have
ScoreKinds ==
    {r \in [classification : {"match", "partial", "gap", "signal_gap"}, weight : {1, 3}] :
        /\ r.classification = "gap" => r.weight = 3
        /\ r.classification = "signal_gap" => r.weight = 1}

ScoreLists == UNION {[1..n -> ScoreKinds] : n \in 0..MaxReqs}

\* the accumulation of the loop over classified results
RECURSIVE ScoreLoop(_, _)
ScoreLoop(acc, rs) ==
    IF rs = <<>> THEN acc ELSE ScoreLoop(Accumulate(acc, Head(rs)), Tail(rs))

\* overall of run_grounded_gap_analysis for classified results rs
OverallOf(acc) == NormalizeScore(acc.score_accum, acc.total_weight)

InitScore ==
    /\ StoreInit
    /\ mem = NoAnalysis
    /\ applied \in {[fn |-> "overall", args |-> rs, value |-> None] : rs \in ScoreLists}

Aggregate ==
    /\ applied.fn = "overall"
    /\ applied.value = None
    /\ applied' = [applied EXCEPT !.value =
                     Some(OverallOf(ScoreLoop([results |-> <<>>, total_weight |-> 0,
                                               score_accum |-> Rat(0, 1)], applied.args)))]
    /\ UNCHANGED <<store, mem>>

NextScore == Aggregate

SpecScore == InitScore /\ [][NextScore]_vars

\* four times the contribution of a requirement: +4w, +2w, -w, 0
RECURSIVE Quarters(_)
Quarters(rs) ==
    IF rs = <<>> THEN 0
    ELSE (IF Head(rs).classification = "match" THEN 4 * Head(rs).weight
          ELSE IF Head(rs).classification = "partial" THEN 2 * Head(rs).weight
          ELSE IF Head(rs).classification = "gap" THEN 0 - Head(rs).weight
          ELSE 0) + Quarters(Tail(rs))

RECURSIVE Weights(_)
Weights(rs) == IF rs = <<>> THEN 0 ELSE Head(rs).weight + Weights(Tail(rs))

C26_PartialBaseline ==
    (/\ applied.fn = "overall"
     /\ applied.value # None
     /\ applied.args # <<>>
     /\ \A k \in 1..Len(applied.args) : applied.args[k].classification = "partial")
        => applied.value[1] = 50

\* ------------------------------------------------------------------------
\* One process: build, analyse, override, rebucket
\* ------------------------------------------------------------------------
\* calls of apply_objective_overrides on one analysis
MaxOverrides == 2

DegreeResumeText == "Bachelor of Science, State University, 1998 - 2020"

OverrideCall(resume_text, degree_req_ids, years_req_ids, years_threshold) ==
    [resume_text |-> resume_text, degree_req_ids |-> degree_req_ids,
     years_req_ids |-> years_req_ids, years_threshold |-> years_threshold]

\* a degree with an institution and 22 years on separate and on shared ids,
\* the default ids, a degree without a span of years, no degree and no
\* year, a threshold above the span
OverrideArgs ==
    {OverrideCall(DegreeResumeText, {"REQ-002"}, {"REQ-003"}, 15),
     OverrideCall(DegreeResumeText, {"REQ-001", "REQ-003"}, {"REQ-003"}, 15),
     OverrideCall(DegreeResumeText, {"REQ-009"}, {"REQ-010"}, 15),
     OverrideCall("B.S. Boston College 2019", {"REQ-002"}, {"REQ-003"}, 15),
     OverrideCall(GapResumeText, {"REQ-002"}, {"REQ-003"}, 15),
     OverrideCall(DegreeResumeText, {"REQ-002"}, {"REQ-003"}, 25)}

InitGap == StoreInit /\ mem = NoAnalysis /\ applied = NoCall

\* build_evidence_cache_for_job of main.py on one connection, to its commit
BuildEvidence ==
    /\ evidence_chunks = <<>>
    /\ evidence_chunks' = build_evidence_cache_for_job(evidence_chunks, 1, Some(1), GapResumeText,
                                                       <<GapPortfolioText>>, 1)
    /\ UNCHANGED <<portfolio_items, grounded_gap_results, txn, writer, now, pc, run, started, completed,
                   finished, saving, last_saved, loaded, mem, applied>>

\* run_grounded_gap_analysis on the two stores of this process, computed
\* once per store and job description
GapAnalyses ==
    {[rows            |-> c[1],
      job_description |-> c[2],
      returned        |-> run_grounded_gap_analysis(c[1], 1, Some(1), c[2], DefaultEvidenceLimit,
                                                    FALSE, "unavailable")] :
        c \in {<<>>, GapRows} \X GapJobDescriptions}

\* gap_result = run_grounded_gap_analysis(conn, resume_id, job_id, job_description)
RunAnalysis(job_description) ==
    /\ \E call \in GapAnalyses :
          /\ call.rows = evidence_chunks
          /\ call.job_description = job_description
          /\ \E g \in call.returned :
                mem' = [NoAnalysis EXCEPT !.job_description = job_description,
                                          !.gap_result = Some(g),
                                          !.last_op = "run"]
    /\ UNCHANGED <<store, applied>>

\* gap_result, audit = apply_objective_overrides(gap_result, resume_text, ...)
ApplyOverrides(a) ==
    /\ mem.gap_result # None
    /\ mem.calls < MaxOverrides
    /\ \E out \in {apply_objective_overrides(mem.gap_result[1], a.resume_text, a.degree_req_ids,
                                             a.years_req_ids, a.years_threshold)} :
          mem' = [mem EXCEPT !.gap_result = Some(out.gap_result),
                             !.audit = Some(out.audit),
                             !.before = mem.gap_result,
                             !.last_op = "override",
                             !.args = Some(a),
                             !.calls = mem.calls + 1,
                             !.repeat = (mem.last_op = "override" /\ mem.args = Some(a))]
    /\ UNCHANGED <<store, applied>>

\* gap_result = rebucket_gap_result(gap_result)
Rebucket ==
    /\ mem.gap_result # None
    /\ mem' = [mem EXCEPT !.gap_result = Some(rebucket_gap_result(mem.gap_result[1])),
                          !.last_op = "rebucket",
                          !.repeat = FALSE]
    /\ UNCHANGED <<store, applied>>

NextGap ==
    \/ BuildEvidence
    \/ \E job_description \in GapJobDescriptions : RunAnalysis(job_description)
    \/ \E a \in OverrideArgs : ApplyOverrides(a)
    \/ Rebucket

SpecGap == InitGap /\ [][NextGap]_vars

\* the four bucket lists of a result, in the order match, partial, gap,
\* signal_gap
BucketLists(g) == <<g.matched_requirements, g.partial_gaps, g.hard_gaps, g.signal_gaps>>

\* C4: in every result run_grounded_gap_analysis or rebucket_gap_result
\* returns, the four bucket lists are pairwise disjoint, together hold every
\* element of all_results exactly once, and each holds exactly the results
\* whose classification is its class.
C4_BucketPartition ==
    (mem.last_op \in {"run", "rebucket"}) =>
        LET g     == mem.gap_result[1]
            n     == Len(g.all_results)
            lists == BucketLists(g)
            class == <<"match", "partial", "gap", "signal_gap">>
        IN  /\ \A k \in 1..4 : \A j \in 1..Len(lists[k]) :
                  /\ lists[k][j] \in 1..n
                  /\ g.all_results[lists[k][j]].classification = class[k]
            /\ \A i \in 1..n :
                  Cardinality({c \in {<<k, j>> : k \in 1..4, j \in 1..n} :
                                  c[2] <= Len(lists[c[1]]) /\ lists[c[1]][c[2]] = i}) = 1

\* rebucket_gap_result has returned, after an override promoted a record,
\* a result of two matches, a partial and a signal gap
C4_Witness ==
    /\ mem.last_op = "rebucket"
    /\ mem.audit # None
    /\ mem.audit[1].overrides # <<>>
    /\ Len(mem.gap_result[1].matched_requirements) = 2
    /\ Len(mem.gap_result[1].partial_gaps) = 1
    /\ Len(mem.gap_result[1].signal_gaps) = 1

\* the audit entries of the last call for requirement rid
EntriesFor(rid) ==
    {j \in 1..Len(mem.audit[1].overrides) : mem.audit[1].overrides[j].requirement_id = rid}

\* C5: when the resume text has a bachelor's degree, every requirement
\* mapped to the degree rule that was not a match before
\* apply_objective_overrides is afterwards a match with match_strength >=
\* 0.85 and confidence >= 0.75, and the audit has exactly one entry for it.
C5_OverrideFlip ==
    (mem.last_op = "override" /\ infer_has_bachelors(mem.args[1].resume_text)) =>
        \A k \in 1..Len(mem.before[1].all_results) :
            LET b == mem.before[1].all_results[k]
                r == mem.gap_result[1].all_results[k]
            IN  (b.requirement_id \in mem.args[1].degree_req_ids /\ b.classification # "match") =>
                    /\ r.classification = "match"
                    /\ 100 * r.match_strength[1] >= 85 * r.match_strength[2]
                    /\ 100 * r.confidence[1] >= 75 * r.confidence[2]
                    /\ Cardinality(EntriesFor(b.requirement_id)) = 1

\* a hard gap mapped to the degree rule has been flipped to match
C5_Witness ==
    /\ mem.last_op = "override"
    /\ infer_has_bachelors(mem.args[1].resume_text)
    /\ \E k \in 1..Len(mem.before[1].all_results) :
          /\ mem.before[1].all_results[k].classification = "gap"
          /\ mem.before[1].all_results[k].requirement_id \in mem.args[1].degree_req_ids
          /\ mem.gap_result[1].all_results[k].classification = "match"
          /\ \E j \in EntriesFor(mem.before[1].all_results[k].requirement_id) :
                mem.audit[1].overrides[j].reason = "degree_detected"

\* C6: a second apply_objective_overrides on the result of a first one, with
\* the same resume text and ids, returns an empty audit and leaves every
\* requirement record as it was; no call writes an audit entry for a
\* requirement that was already a match.
C6_OverrideIdempotent ==
    (mem.last_op = "override") =>
        /\ mem.repeat =>
              /\ mem.audit[1].overrides = <<>>
              /\ mem.gap_result[1].all_results = mem.before[1].all_results
        /\ \A k \in 1..Len(mem.before[1].all_results) :
              mem.before[1].all_results[k].classification = "match" =>
                  EntriesFor(mem.before[1].all_results[k].requirement_id) = {}

\* the second of two equal calls ran on a record the first one promoted
C6_Witness ==
    /\ mem.last_op = "override"
    /\ mem.repeat
    /\ \E k \in 1..Len(mem.before[1].all_results) :
          /\ mem.before[1].all_results[k].requirement_id \in mem.args[1].degree_req_ids
          /\ mem.before[1].all_results[k].classification = "match"
          /\ mem.before[1].all_results[k].match_strength = Rat(85, 100)

\* C9: when extract_requirements_deterministic finds no requirement in the
\* job description, run_grounded_gap_analysis returns overall_alignment_score
\* 0, requirements_total 0, an empty all_results and four empty buckets,
\* whatever evidence is stored.
C9_EmptyRequirements ==
    (mem.last_op = "run" /\ extract_requirements_deterministic(mem.job_description) = <<>>) =>
        /\ mem.gap_result[1].overall_alignment_score = 0
        /\ mem.gap_result[1].requirements_total = 0
        /\ mem.gap_result[1].all_results = <<>>
        /\ \A k \in 1..4 : BucketLists(mem.gap_result[1])[k] = <<>>

\* a job description without bullets has been analysed on stored evidence
C9_Witness ==
    /\ mem.last_op = "run"
    /\ evidence_chunks # <<>>
    /\ mem.job_description = "About us\nWe are hiring."
    /\ mem.gap_result[1].overall_alignment_score = 0

\* C15: in every record of all_results of the gap result the process
\* holds, as returned by run_grounded_gap_analysis and after every
\* apply_objective_overrides and rebucket_gap_result pass, followup_question
\* is non-empty if and only if the classification is not match.
C15_FollowupIffNotMatch ==
    mem.gap_result # None =>
        \A i \in 1..Len(mem.gap_result[1].all_results) :
            (mem.gap_result[1].all_results[i].followup_question # "")
                <=> (mem.gap_result[1].all_results[i].classification # "match")

\* rebucket_gap_result has returned and apply_objective_overrides has run
\* on the result before it
RebucketedAfterOverride == mem.last_op = "rebucket" /\ mem.audit # None

\* the number of records of results that hold the classification
Holding(results, classification) ==
    Cardinality({i \in 1..Len(results) : results[i].classification = classification})

\* the summary that states the score and the four counts
StatedSummary(score, matches, partial, gaps, signal_gaps) ==
    "Overall grounded alignment: " \o Str(score) \o "/100. Matches: " \o Str(matches)
    \o ", Partial: " \o Str(partial) \o ", Gaps: " \o Str(gaps)
    \o ", Signal gaps: " \o Str(signal_gaps) \o "."

\* C23: after apply_objective_overrides followed by rebucket_gap_result
\* the summary states the numbers of all_results records that now hold
\* each classification and the overall_alignment_score of the result, and
\* every requirement the override promoted is in matched_requirements and
\* in no other bucket.
C23_RebucketAfterOverride ==
    RebucketedAfterOverride =>
        LET g == mem.gap_result[1]
        IN  /\ g.summary = StatedSummary(g.overall_alignment_score,
                                         Holding(g.all_results, "match"),
                                         Holding(g.all_results, "partial"),
                                         Holding(g.all_results, "gap"),
                                         Holding(g.all_results, "signal_gap"))
            /\ \A j \in 1..Len(mem.audit[1].overrides) :
                  \A i \in 1..Len(g.all_results) :
                      g.all_results[i].requirement_id = mem.audit[1].overrides[j].requirement_id =>
                          /\ i \in Range(g.matched_requirements)
                          /\ i \notin Range(g.partial_gaps) \cup Range(g.hard_gaps)
                                          \cup Range(g.signal_gaps)

\* an override has promoted a hard gap and rebucket_gap_result has moved it
\* to the matches: the summary states two matches and no gap where the
\* result before the override had one match and one gap
C23_Witness ==
    /\ RebucketedAfterOverride
    /\ mem.audit[1].overrides # <<>>
    /\ Holding(mem.before[1].all_results, "gap") = 1
    /\ Holding(mem.before[1].all_results, "match") = 1
    /\ mem.gap_result[1].hard_gaps = <<>>
    /\ Len(mem.gap_result[1].matched_requirements) = 2
    /\ mem.gap_result[1].summary # mem.before[1].summary

\* the requirement id is in the degree ids and the resume text states a
\* degree, or it is in the years ids and the years inferred from the resume
\* text reach the threshold
FactHolds(rid, a) ==
    \/ rid \in a.degree_req_ids /\ infer_has_bachelors(a.resume_text)
    \/ /\ rid \in a.years_req_ids
       /\ infer_years_experience(a.resume_text) # None
       /\ infer_years_experience(a.resume_text)[1] >= a.years_threshold

\* record new is record old but for the four fields of an override
SameButOverridden(old, new) ==
    [new EXCEPT !.classification = old.classification,
                !.match_strength = old.match_strength,
                !.match_strength_pct = old.match_strength_pct,
                !.confidence = old.confidence] = old

\* none of the three numbers of record new is below that of record old
NotLowered(old, new) ==
    /\ RLe(old.match_strength, new.match_strength)
    /\ old.match_strength_pct <= new.match_strength_pct
    /\ RLe(old.confidence, new.confidence)

\* the frame of apply_objective_overrides on the records, from result old
\* to result new under the arguments a
RecordsFrame(old, new, a) ==
    /\ Len(new.all_results) = Len(old.all_results)
    /\ \A k \in 1..Len(old.all_results) :
          /\ SameButOverridden(old.all_results[k], new.all_results[k])
          /\ NotLowered(old.all_results[k], new.all_results[k])
          /\ new.all_results[k].evidence = old.all_results[k].evidence
          /\ ~FactHolds(old.all_results[k].requirement_id, a)
                => new.all_results[k] = old.all_results[k]

\* C28: apply_objective_overrides changes nothing of the result but the
\* classification, match_strength, match_strength_pct and confidence of
\* records whose requirement id is in the degree or years ids and whose
\* fact holds, lowers none of the three numbers, and leaves every other
\* record, the evidence of every record and overall_alignment_score as
\* they were; rebucket_gap_result after it leaves overall_alignment_score
\* and all_results as the override returned them.
C28_OverrideFrame ==
    /\ mem.last_op = "override"
          => /\ [mem.gap_result[1] EXCEPT !.all_results = mem.before[1].all_results]
                   = mem.before[1]
             /\ RecordsFrame(mem.before[1], mem.gap_result[1], mem.args[1])
    /\ RebucketedAfterOverride
          => /\ mem.gap_result[1].overall_alignment_score
                   = mem.before[1].overall_alignment_score
             /\ RecordsFrame(mem.before[1], mem.gap_result[1], mem.args[1])

\* an override has promoted a record that cites evidence and has left
\* another record as it was, and rebucket_gap_result has run: every record
\* is a match, and the score is the one of the result before the override,
\* below 100
C28_Witness ==
    /\ RebucketedAfterOverride
    /\ \E k \in 1..Len(mem.before[1].all_results) :
          /\ mem.before[1].all_results[k].classification = "partial"
          /\ mem.before[1].all_results[k].evidence # <<>>
          /\ mem.gap_result[1].all_results[k].classification = "match"
          /\ mem.gap_result[1].all_results[k].evidence = mem.before[1].all_results[k].evidence
          /\ RLt(mem.before[1].all_results[k].match_strength,
                 mem.gap_result[1].all_results[k].match_strength)
    /\ \E j \in 1..Len(mem.before[1].all_results) :
          /\ ~FactHolds(mem.before[1].all_results[j].requirement_id, mem.args[1])
          /\ mem.gap_result[1].all_results[j] = mem.before[1].all_results[j]
    /\ Holding(mem.gap_result[1].all_results, "match") = Len(mem.gap_result[1].all_results)
    /\ mem.gap_result[1].overall_alignment_score = mem.before[1].overall_alignment_score
    /\ mem.gap_result[1].overall_alignment_score < 100

\* ------------------------------------------------------------------------
\* The matching and classification of one requirement
\* ------------------------------------------------------------------------
\* evidence items in one list
MaxEvidence == 2

\* the requirements of a job description with the example requirement
MatchRequirements ==
    Range(extract_requirements_deterministic(
              "Qualifications\n- " \o ExampleReqText
              \o "\nPreferred\n- Sailing\n- Press release on FDA approval"))

\* the example evidence chunk with the tags and the confidence it is stored
\* with in the example
ExampleEvidence ==
    [evidence_id |-> EvidenceId(7),
     source_type |-> "resume",
     source_name |-> "resume",
     section     |-> "resume",
     chunk_text  |-> ExampleEvText,
     tags        |-> <<"crisis_issues", "regulated_healthcare">>,
     confidence  |-> Rat(7, 10)]

\* the example item and the items of the built store
MatchEvidencePool ==
    {ExampleEvidence} \cup UNION {Range(ev) : ev \in load_evidence_index(GapRows, 1, Some(1), DefaultEvidenceLimit)}

MatchEvidenceLists ==
    UNION {{ev \in [1..n -> MatchEvidencePool] : \A a, b \in 1..n : a # b => ev[a] # ev[b]} :
              n \in 0..MaxEvidence}

\* semantic_enabled() and the state of the provider
MatchModes == {<<FALSE, "unavailable">>} \cup ({TRUE} \X ProviderModes)

\* evidence items in one list that is ranked
MaxRanked == 4

\* portfolio documents of one chunk each: two with the same tokens and
\* tags, one without tags or signals, one close to a requirement
RankPortfolioTexts ==
    <<GapPortfolioText, "Lead crisis communications", "Communications crisis lead",
      "Sailing on weekends">>

\* rows of evidence_chunks after one build with these documents
RankRows ==
    build_evidence_cache_for_job(<<>>, 1, Some(1), GapResumeText, RankPortfolioTexts, 1)

RankEvidencePool == {EvidenceItem(RankRows[i]) : i \in 1..Len(RankRows)}

RankEvidenceLists ==
    UNION {{ev \in [1..n -> RankEvidencePool] : \A a, b \in 1..n : a # b => ev[a] # ev[b]} :
              n \in 0..MaxRanked}

\* portfolio documents of one chunk each, more than the matcher blends:
\* document i holds the words of a requirement and i words of its own
RECURSIVE OwnWords(_)
OwnWords(i) ==
    IF i = 0 THEN ""
    ELSE OwnWords(i - 1) \o (IF i < 10 THEN " w0" ELSE " w") \o Str(i)

LongPortfolioTexts == [i \in 1..(MaxBlended + 1) |-> "Lead crisis communications" \o OwnWords(i)]

\* the item load_evidence_index returns for the row with this id that a
\* build for resume 1 and job 1 stores for a chunk with these signals
StoredItem(id, source_type, source_name, section, chunk, signals) ==
    EvidenceItem(BoundRow(id, 1, Some(1), source_type, source_name, section, chunk, signals, 1))

\* the tags and signals of the words the documents share: the words of
\* their own add none
LongSignals == tag_and_extract_signals("Lead crisis communications")

\* the evidence list of the rows of evidence_chunks after one build with
\* the resume "Lead crisis communications" and these documents, in the
\* order of their ids
LongEvidence ==
    [i \in 1..(MaxBlended + 2) |->
        IF i = 1
        THEN StoredItem(1, "resume", "resume", "resume", "Lead crisis communications", LongSignals)
        ELSE StoredItem(i, "portfolio", "portfolio_" \o Str(i - 1), "portfolio",
                        LongPortfolioTexts[i - 1], LongSignals)]

\* (req_text, req_competency) pairs
RankRequirements ==
    {<<ExampleReqText, "crisis_issues">>, <<"Lead crisis communications", "">>,
     <<"Weekend sailing", "">>}

\* the evidence lists load_evidence_index may return on GapRows, and none
AnalysisEvidence == {<<>>} \cup load_evidence_index(GapRows, 1, Some(1), DefaultEvidenceLimit)

\* a resume of one line, and so of one chunk, of 626 characters
LongQuoteText == "Lead crisis communications" \o Rep(" and media relations", 30)

\* the tags and signals of the resume: its repeated words add none to
\* those of their first occurrence
LongQuoteSignals == tag_and_extract_signals("Lead crisis communications and media relations")

\* the evidence list of the rows of evidence_chunks after one build with
\* this resume and two portfolio documents, in the order of their ids
LongQuoteEvidence ==
    <<StoredItem(1, "resume", "resume", "resume", LongQuoteText, LongQuoteSignals),
      StoredItem(2, "portfolio", "portfolio_1", "portfolio", "Lead crisis communications",
                 LongSignals),
      StoredItem(3, "portfolio", "portfolio_2", "portfolio", "Crisis team lead",
                 tag_and_extract_signals("Crisis team lead"))>>

\* a job description of one requirement the long evidence supports and one
\* it does not
LongJobDescription == "Qualifications\n- Lead crisis communications\n- Sailing"

\* (job description, evidence) pairs run_grounded_gap_analysis is applied to
AnalysisCalls ==
    (GapJobDescriptions \X AnalysisEvidence)
        \cup ({LongJobDescription} \X {LongQuoteEvidence, LongEvidence})

InitMatch ==
    /\ StoreInit
    /\ mem = NoAnalysis
    /\ \/ applied \in
             {[fn |-> "match", args |-> <<req, ev, m[1], m[2]>>, value |-> None] :
                 req \in MatchRequirements, ev \in MatchEvidenceLists, m \in MatchModes}
       \/ applied \in
             {[fn |-> "_best_evidence_for_requirement",
               args |-> <<req[1], req[2], ev, 3, m[1], m[2]>>, value |-> None] :
                 req \in RankRequirements, ev \in RankEvidenceLists \cup {LongEvidence},
                 m \in MatchModes}
       \/ applied \in
             {[fn |-> "run_grounded_gap_analysis", args |-> <<c[1], c[2], m[1], m[2]>>,
               value |-> None] :
                 c \in AnalysisCalls, m \in MatchModes}

\* the body of the loop of run_grounded_gap_analysis on one requirement
MatchRequirement ==
    /\ applied.fn = "match"
    /\ applied.value = None
    /\ applied' = [applied EXCEPT !.value =
                     Some(RequirementResult(applied.args[1], strip(applied.args[1].text),
                                            applied.args[2], applied.args[3], applied.args[4]))]
    /\ UNCHANGED <<store, mem>>

\* best = _best_evidence_for_requirement(req_text, competency, evidence, top_k=3)
BestEvidence ==
    /\ applied.fn = "_best_evidence_for_requirement"
    /\ applied.value = None
    /\ applied' = [applied EXCEPT !.value =
                     Some(_best_evidence_for_requirement(
                              applied.args[1], applied.args[2], applied.args[3],
                              applied.args[4], applied.args[5], applied.args[6]))]
    /\ UNCHANGED <<store, mem>>

\* run_grounded_gap_analysis from the evidence it loaded to its return
Analyse ==
    /\ applied.fn = "run_grounded_gap_analysis"
    /\ applied.value = None
    /\ applied' = [applied EXCEPT !.value =
                     Some(AnalysisResult(applied.args[1], applied.args[2], applied.args[3],
                                         applied.args[4]))]
    /\ UNCHANGED <<store, mem>>

NextMatch == MatchRequirement \/ BestEvidence \/ Analyse

SpecMatch == InitMatch /\ [][NextMatch]_vars

\* the example requirement has been matched, without semantic reranking,
\* against the example evidence chunk alone
ExampleMatched ==
    /\ applied.fn = "match"
    /\ applied.value # None
    /\ applied.args[1].text = ExampleReqText
    /\ applied.args[2] = <<ExampleEvidence>>
    /\ applied.args[3] = FALSE

\* C10 as stated: the example requirement matched against the example
\* evidence chunk scores above 0.65 and is classified match.
C10_ExampleIsMatch ==
    ExampleMatched =>
        /\ 100 * applied.value[1].match_strength[1] > 65 * applied.value[1].match_strength[2]
        /\ applied.value[1].classification = "match"

\* C10: the example requirement matched against the example evidence chunk
\* scores 1/17 (token overlap) + 0.30 (two shared tags) + 0.07 (confidence)
\* = 729/1700, about 0.429, and is classified partial.
C10_ExampleIsPartial ==
    ExampleMatched =>
        /\ applied.value[1].match_strength = Rat(729, 1700)
        /\ applied.value[1].evidence[1].match_strength = Rat(729, 1700)
        /\ applied.value[1].classification = "partial"

\* the example has been matched and its one evidence entry is reported
C10_Witness ==
    /\ ExampleMatched
    /\ Len(applied.value[1].evidence) = 1
    /\ applied.value[1].evidence[1].quote = ExampleEvText

\* ------------------------------------------------------------------------
\* load_evidence_index on stores of several resumes and jobs
\* ------------------------------------------------------------------------
\* build_evidence_cache_for_job calls in one behaviour
MaxIngests == 2

QueryResumeIds == {1, 2}
QueryJobIds == {None, Some(1), Some(2)}
QueryLimits == {0, 1, 2, DefaultEvidenceLimit}

InitQuery == StoreInit /\ mem = NoAnalysis /\ applied = NoCall

\* build_evidence_cache_for_job for one resume and job, run to its commit
Ingest(resume_id, job_id) ==
    /\ started < MaxIngests
    /\ started' = started + 1
    /\ evidence_chunks' = build_evidence_cache_for_job(evidence_chunks, resume_id, job_id,
                                                       ResumeTextB, <<>>, now)
    /\ UNCHANGED <<portfolio_items, grounded_gap_results, txn, writer, now, pc, run, completed, finished,
                   saving, last_saved, loaded, mem, applied>>

\* evidence = load_evidence_index(conn, resume_id, job_id, limit)
Query(resume_id, job_id, limit) ==
    /\ applied = NoCall
    /\ \E out \in load_evidence_index(evidence_chunks, resume_id, job_id, limit) :
          applied' = [fn    |-> "load_evidence_index",
                      args  |-> <<evidence_chunks, resume_id, job_id, limit>>,
                      value |-> Some(out)]
    /\ UNCHANGED <<store, mem>>

NextQuery ==
    \/ \E resume_id \in QueryResumeIds, job_id \in QueryJobIds : Ingest(resume_id, job_id)
    \/ Tick
    \/ \E resume_id \in QueryResumeIds, job_id \in QueryJobIds, limit \in QueryLimits :
          Query(resume_id, job_id, limit)

SpecQuery == InitQuery /\ [][NextQuery]_vars

\* the row of rows an evidence item was read from
RowOfItem(rows, item) == rows[CHOOSE i \in 1..Len(rows) : EvidenceId(rows[i].id) = item.evidence_id]

\* C16: load_evidence_index returns only chunks stored under the requested
\* resume_id whose job_id is the requested job_id or null, at most limit of
\* them, most recent first.
C16_ScopedQuery ==
    applied.fn = "load_evidence_index" =>
        LET rows == applied.args[1]
            out  == applied.value[1]
        IN  /\ \A k \in 1..Len(out) :
                  /\ RowOfItem(rows, out[k]).resume_id = applied.args[2]
                  /\ \/ RowOfItem(rows, out[k]).job_id = applied.args[3]
                     \/ RowOfItem(rows, out[k]).job_id = None
            /\ Len(out) <= applied.args[4]
            /\ \A a, b \in 1..Len(out) :
                  a < b => RowOfItem(rows, out[a]).created_at >= RowOfItem(rows, out[b]).created_at

\* ------------------------------------------------------------------------
\* The line scanner of extract_requirements_deterministic
\* ------------------------------------------------------------------------
\* lines in one generated job description
MaxLines == 3

\* headings with one and with two keywords, bulleted lines with and without
\* a keyword, a bullet without text, a line that is neither
ScanLinePool ==
    {"Responsibilities", "QUALIFICATIONS:", "Preferred", "Preferred qualifications",
     "- Lead crisis communications", "* Sailing", "- Own responsibility for FDA filings",
     " - ", "About us"}

RECURSIVE JoinLines(_)
JoinLines(lines) ==
    IF lines = <<>> THEN ""
    ELSE IF Len(lines) = 1 THEN lines[1]
    ELSE lines[1] \o "\n" \o JoinLines(Tail(lines))

\* job descriptions of up to MaxLines lines, and long lists of bullets
ScanJobDescriptions ==
    {JoinLines(lines) : lines \in UNION {[1..n -> ScanLinePool] : n \in 0..MaxLines}}
    \cup {"Preferred\r\n" \o Rep("- Sailing\n", n) : n \in {12, 101}}

\* a call that has not started
ScanCall(job_desc) ==
    [fn |-> "extract_requirements_deterministic", args |-> <<job_desc>>, value |-> None,
     pc |-> "start", lines |-> <<>>, pos |-> 0,
     st |-> [reqs |-> <<>>, req_id |-> 1, mode |-> "general"]]

InitExtract ==
    /\ StoreInit
    /\ mem = NoAnalysis
    /\ applied \in {ScanCall(jd) : jd \in ScanJobDescriptions}

\* jd = (job_desc or "").strip(); `return []` for an empty one; else the
\* lines, req_id = 1 and mode = "general"
ScanStart ==
    /\ applied.pc = "start"
    /\ applied' =
          IF strip(applied.args[1]) = ""
          THEN [applied EXCEPT !.pc = "done", !.value = Some(<<>>)]
          ELSE [applied EXCEPT
                   !.pc = "loop",
                   !.lines = NonEmptyLines(SplitLines(NormalizeNewlines(strip(applied.args[1])))),
                   !.pos = 1]
    /\ UNCHANGED <<store, mem>>

\* one iteration of `for ln in lines`
ScanLine ==
    /\ applied.pc = "loop"
    /\ applied.pos <= Len(applied.lines)
    /\ applied' = [applied EXCEPT !.st = ExtractLine(applied.st, applied.lines[applied.pos]),
                                  !.pos = applied.pos + 1]
    /\ UNCHANGED <<store, mem>>

\* return reqs
ScanReturn ==
    /\ applied.pc = "loop"
    /\ applied.pos > Len(applied.lines)
    /\ applied' = [applied EXCEPT !.pc = "done", !.value = Some(applied.st.reqs)]
    /\ UNCHANGED <<store, mem>>

NextExtract == ScanStart \/ ScanLine \/ ScanReturn

SpecExtract == InitExtract /\ [][NextExtract]_vars

\* i as three decimal digits, for i < 1000
ThreeDigits(i) ==
    Ch(DigitChars, ((i \div 100) % 10) + 1) \o Ch(DigitChars, ((i \div 10) % 10) + 1)
    \o Ch(DigitChars, (i % 10) + 1)

\* C17: the i-th requirement emitted so far, and the i-th requirement of
\* the list returned, has the id REQ- followed by i as three digits: ids are
\* unique and contiguous from REQ-001 in document order, whatever the modes
\* and whatever lines were discarded or skipped in between.
C17_RequirementIds ==
    applied.fn = "extract_requirements_deterministic" =>
        /\ \A i \in 1..Len(applied.st.reqs) :
              applied.st.reqs[i].requirement_id = "REQ-" \o ThreeDigits(i)
        /\ \A i, j \in 1..Len(applied.st.reqs) :
              i # j => applied.st.reqs[i].requirement_id # applied.st.reqs[j].requirement_id
        /\ applied.st.req_id = Len(applied.st.reqs) + 1
        /\ applied.value # None =>
              /\ applied.value[1] = applied.st.reqs
              /\ applied.value[1] = extract_requirements_deterministic(applied.args[1])

\* a list of 101 requirements has been returned, the last under REQ-101,
\* after a heading line that emitted nothing
C17_Witness ==
    /\ applied.fn = "extract_requirements_deterministic"
    /\ applied.value # None
    /\ Len(applied.value[1]) = 101
    /\ applied.value[1][101].requirement_id = "REQ-101"
    /\ applied.value[1][10].requirement_id = "REQ-010"
    /\ Len(applied.lines) = 102

\* the line the scanner is at, lowered
ScannedLine == lower(applied.lines[applied.pos])

\* one iteration of the loop is taken
Scanning == applied.pc = "loop" /\ applied.pos <= Len(applied.lines) /\ applied'.pos = applied.pos + 1

\* the fields of a requirement that its mode decides
UnderMode(r, mode) ==
    /\ r.must_have = (mode \in {"qualification", "responsibility"})
    /\ r.weight = (IF mode \in {"qualification", "responsibility"} THEN 3 ELSE 1)
    /\ r.category = (IF mode \in {"qualification", "responsibility"} THEN "required" ELSE "preferred")

\* on a keyword line nothing is emitted; on any other line the mode stays
\* and what is emitted is classified under it
ScanFrame ==
    IF \E kw \in {"responsibilit", "qualif", "preferred"} : Contains(ScannedLine, kw)
    THEN applied'.st.reqs = applied.st.reqs
    ELSE /\ applied'.st.mode = applied.st.mode
         /\ \E n \in {0, 1} : Len(applied'.st.reqs) = Len(applied.st.reqs) + n
         /\ SubSeq(applied'.st.reqs, 1, Len(applied.st.reqs)) = applied.st.reqs
         /\ \A i \in (Len(applied.st.reqs) + 1)..Len(applied'.st.reqs) :
               UnderMode(applied'.st.reqs[i], applied.st.mode)

\* C18 as stated: the scanner starts in mode general; every line containing
\* 'responsibilit', 'qualif' or 'preferred' sets the mode to responsibility,
\* qualification or preferred respectively and emits nothing; every other
\* line leaves the mode and is classified under it.
C18_EveryKeywordSetsItsMode ==
    [][/\ (applied.pc = "start" => applied.st.mode = "general")
       /\ Scanning =>
             /\ Contains(ScannedLine, "responsibilit") => applied'.st.mode = "responsibility"
             /\ Contains(ScannedLine, "qualif") => applied'.st.mode = "qualification"
             /\ Contains(ScannedLine, "preferred") => applied'.st.mode = "preferred"
             /\ ScanFrame]_vars

\* C18: the scanner starts in mode general; a line containing
\* 'responsibilit' sets the mode to responsibility, a line containing
\* 'qualif' and not 'responsibilit' sets it to qualification, a line
\* containing 'preferred' and neither of the two sets it to preferred
\* (case-insensitive, bulleted or not), and such a line emits nothing; every
\* other line leaves the mode, and a requirement it emits is classified
\* under the mode of the nearest keyword line before it (general if none).
C18_ModeMachine ==
    [][/\ (applied.pc = "start" => applied.st.mode = "general")
       /\ Scanning =>
             /\ Contains(ScannedLine, "responsibilit") => applied'.st.mode = "responsibility"
             /\ (Contains(ScannedLine, "qualif") /\ ~Contains(ScannedLine, "responsibilit"))
                   => applied'.st.mode = "qualification"
             /\ (Contains(ScannedLine, "preferred") /\ ~Contains(ScannedLine, "qualif")
                    /\ ~Contains(ScannedLine, "responsibilit"))
                   => applied'.st.mode = "preferred"
             /\ ScanFrame]_vars

\* after the heading "Preferred qualifications" the scanner is in mode
\* qualification and has emitted the bullet under it as a required one
C18_Witness ==
    /\ applied.fn = "extract_requirements_deterministic"
    /\ applied.pc = "loop"
    /\ applied.pos = 3
    /\ applied.lines[1] = "Preferred qualifications"
    /\ applied.st.mode = "qualification"
    /\ Len(applied.st.reqs) = 1
    /\ applied.st.reqs[1].category = "required"

\* the text of a line after its leading markers and blanks
AfterMarker(ln) == strip(LStripSet(ln, ReqBullets \cup {" "}))

\* the requirement r is what the line ln gives under mode
EmittedFrom(r, ln, mode) ==
    /\ Ch(ln, 1) \in ReqBullets
    /\ AfterMarker(ln) # ""
    /\ r.text = AfterMarker(ln)
    /\ r.must_have = (mode = "qualification" \/ mode = "responsibility")
    /\ r.weight = (IF r.must_have THEN 3 ELSE 1)
    /\ r.category = (IF r.must_have THEN "required" ELSE "preferred")

\* no line scanned so far holds a keyword
NoKeywordYet ==
    \A p \in 1..(applied.pos - 1) :
        \A kw \in {"responsibilit", "qualif", "preferred"} : ~Contains(lower(applied.lines[p]), kw)

\* C22: a requirement is emitted only by a line that starts with a bullet
\* marker and has text after the marker, that text being the requirement's;
\* its must_have is (mode is qualification or responsibility), its weight 3
\* if must_have else 1, its category required if must_have else preferred,
\* for the mode at that line; a requirement emitted before any keyword line
\* is preferred with weight 1; no emitted requirement changes afterwards.
C22_RequirementFields ==
    [][Scanning =>
          /\ Len(applied'.st.reqs) \in {Len(applied.st.reqs), Len(applied.st.reqs) + 1}
          /\ SubSeq(applied'.st.reqs, 1, Len(applied.st.reqs)) = applied.st.reqs
          /\ Len(applied'.st.reqs) > Len(applied.st.reqs) =>
                LET r == applied'.st.reqs[Len(applied'.st.reqs)]
                IN  /\ EmittedFrom(r, applied.lines[applied.pos], applied.st.mode)
                    /\ NoKeywordYet =>
                          r.category = "preferred" /\ r.weight = 1 /\ ~r.must_have]_vars

\* a bullet before any keyword line has been returned as a preferred
\* requirement of weight 1, and a bullet under a responsibilities heading
\* as a required one of weight 3
C22_Witness ==
    /\ applied.fn = "extract_requirements_deterministic"
    /\ applied.value # None
    /\ Len(applied.value[1]) = 2
    /\ applied.lines[1] = "* Sailing"
    /\ applied.value[1][1].text = "Sailing"
    /\ applied.value[1][1].category = "preferred"
    /\ applied.value[1][1].weight = 1
    /\ applied.lines[2] = "Responsibilities"
    /\ applied.value[1][2].must_have
    /\ applied.value[1][2].weight = 3

\* ------------------------------------------------------------------------
\* chunk_text applied to single long lines
\* ------------------------------------------------------------------------
\* a line of n characters: p times "a", then c, then b to the end
LineOf(n, p, c, b) == Rep("a", p) \o c \o Rep(b, n - 1 - p)

\* lines of 1500 characters and of lengths around the slice boundaries, with
\* one character that differs or is blank at a boundary
ChunkLineLengths == {1500, 1401, 1400, 701}
ChunkLinePositions == {0, 1, 699, 700, 1399, 1400, 1499}
BoundaryLines ==
    {LineOf(n, p, c, b) : n \in ChunkLineLengths,
                          p \in {q \in ChunkLinePositions : q < 701},
                          c \in {"a", "x", " "}, b \in {"a", "b"}}
LongLines ==
    {LineOf(1500, p, c, b) : p \in ChunkLinePositions, c \in {"a", "x", " "}, b \in {"a", "b"}}
ChunkTextInputs == BoundaryLines \cup LongLines

\* lines of one short text
MaxChunkLines == 3

\* short lines: repeated ones, one ending in a full stop, a bullet, one
\* with blanks around it, an empty one, a section heading
ShortLinePool == {"aa", "bb", "a.", "- b", "abcde", " a ", "", "Skills"}

\* texts of up to MaxChunkLines short lines, and two texts in which a line
\* is repeated within and across sections
ShortTexts ==
    {JoinLines(lines) : lines \in UNION {[1..n -> ShortLinePool] : n \in 0..MaxChunkLines}}
    \cup {ResumeTextA, "aa\nSkills\naa\nbb\naa", "aa\r\nbb\raa"}

\* (max_chars, min_chars) of a call on a short text
ChunkSizes == {<<1, 1>>, <<2, 1>>, <<3, 3>>, <<5, 3>>, <<5, 200>>, <<DefaultMaxChars, DefaultMinChars>>}

ChunkCalls ==
    {<<t, DefaultMaxChars, DefaultMinChars>> : t \in ChunkTextInputs}
    \cup {<<t, size[1], size[2]>> : t \in ShortTexts, size \in ChunkSizes}

InitChunk ==
    /\ StoreInit
    /\ mem = NoAnalysis
    /\ applied \in {[fn |-> "chunk_text", args |-> call, value |-> None] : call \in ChunkCalls}

ChunkText ==
    /\ applied.fn = "chunk_text"
    /\ applied.value = None
    /\ applied' = [applied EXCEPT !.value =
                     Some(chunk_text(applied.args[1], applied.args[2], applied.args[3]))]
    /\ UNCHANGED <<store, mem>>

NextChunk == ChunkText

SpecChunk == InitChunk /\ [][NextChunk]_vars

\* chunk_text has been applied, with max_chars = 700, to one line of 1500
\* characters
LongLineChunked ==
    /\ applied.fn = "chunk_text"
    /\ applied.value # None
    /\ Len(applied.args[1]) = 1500
    /\ applied.args[2] = 700
    /\ \A i \in 1..1500 : Ch(applied.args[1], i) \notin {"\n", "\r"}

\* the lengths of the chunks returned
ChunkLengths == [k \in 1..Len(applied.value[1]) |-> Len(applied.value[1][k][2])]

\* C11 as stated: every single line of 1500 characters with no newlines,
\* chunked with max_chars = 700, gives exactly 3 chunks of lengths 700, 700
\* and 100, in that order.
C11_ThreeChunks == LongLineChunked => ChunkLengths = <<700, 700, 100>>

\* C11: a single line of 1500 characters with no newlines, chunked with
\* max_chars = 700, gives at most 3 chunks of at most 700 characters; when
\* the line has no whitespace the chunks are its slices [0:700], [700:1400]
\* and [1400:1500] in that order, of lengths 700, 700 and 100, except that
\* the second slice is dropped as a duplicate when it equals the first.
C11_DistinctSlices ==
    LongLineChunked =>
        LET t  == applied.args[1]
            s1 == <<"document", SubSeq(t, 1, 700)>>
            s2 == <<"document", SubSeq(t, 701, 1400)>>
            s3 == <<"document", SubSeq(t, 1401, 1500)>>
        IN  /\ Len(applied.value[1]) <= 3
            /\ \A k \in 1..Len(ChunkLengths) : ChunkLengths[k] <= 700
            /\ (\A i \in 1..1500 : Ch(t, i) \notin Spaces) =>
                   /\ applied.value[1] = (IF s1[2] = s2[2] THEN <<s1, s3>> ELSE <<s1, s2, s3>>)
                   /\ (s1[2] # s2[2]) => ChunkLengths = <<700, 700, 100>>
                   /\ (s1[2] = s2[2]) => ChunkLengths = <<700, 100>>

\* a line of 1500 characters without whitespace whose first two slices
\* differ has been cut into chunks of 700, 700 and 100 characters
C11_Witness ==
    /\ LongLineChunked
    /\ \A i \in 1..1500 : Ch(applied.args[1], i) \notin Spaces
    /\ SubSeq(applied.args[1], 1, 700) # SubSeq(applied.args[1], 701, 1400)
    /\ ChunkLengths = <<700, 700, 100>>

\* chunk_text has returned
Chunked == applied.fn = "chunk_text" /\ applied.value # None

\* the chunks of the call before the closing loop drops duplicates
Produced ==
    IF strip(applied.args[1]) = "" THEN <<>>
    ELSE ChunkAllSections(<<>>, ChunkSections(NormalizeNewlines(strip(applied.args[1]))),
                          applied.args[2], applied.args[3])

\* the place of the first entry of chunks equal to c
FirstPlace(chunks, c) == CHOOSE i \in 1..Len(chunks) : chunks[i] = c /\ \A j \in 1..(i - 1) : chunks[j] # c

\* out holds every (section, text) pair of produced once, in the order of
\* the first occurrences
FirstOccurrences(out, produced) ==
    /\ \A i, j \in 1..Len(out) : i # j => out[i] # out[j]
    /\ Range(out) = Range(produced)
    /\ \A i, j \in 1..Len(out) :
          i < j => FirstPlace(produced, out[i]) < FirstPlace(produced, out[j])

\* C24: the list chunk_text returns holds no two entries with the same
\* (section label, chunk text) pair, holds every pair that was produced, and
\* holds them in the order in which their first occurrences were produced.
C24_ChunkDeduplication == Chunked => FirstOccurrences(applied.value[1], Produced)

\* produced repeats a pair, and holds one text under two section labels,
\* both of which out keeps
RepeatedAndShared(out, produced) ==
    /\ Len(out) < Len(produced)
    /\ \E i, j \in 1..Len(out) : out[i][2] = out[j][2] /\ out[i][1] # out[j][1]

\* a chunk repeated within a section has been dropped, and the chunk of the
\* same text of another section has been kept
C24_Witness == Chunked /\ RepeatedAndShared(applied.value[1], Produced)

\* the non-empty lines of at most max_chars characters of the sections of
\* the text, as (section label, line) pairs in text order
RECURSIVE ShortLinesOf(_, _)
ShortLinesOf(sections, max_chars) ==
    IF sections = <<>> THEN <<>>
    ELSE LET lines == SelectSeq(StripAll(SplitLines(Head(sections)[2])),
                                LAMBDA ln : ln # "" /\ Len(ln) <= max_chars)
         IN  [k \in 1..Len(lines) |-> <<Head(sections)[1], lines[k]>>]
             \o ShortLinesOf(Tail(sections), max_chars)

ShortLines ==
    IF strip(applied.args[1]) = "" THEN <<>>
    ELSE ShortLinesOf(ChunkSections(NormalizeNewlines(strip(applied.args[1]))), applied.args[2])

\* the chunks from place k on that hold the line whole under its section
Holders(line, chunks, k) ==
    {j \in k..Len(chunks) : chunks[j][1] = line[1] /\ Contains(chunks[j][2], line[2])}

\* the lines can be assigned, in their order, to chunks from place k on
\* that hold them, the places never decreasing
RECURSIVE InOrder(_, _, _)
InOrder(lines, chunks, k) ==
    IF lines = <<>> THEN TRUE
    ELSE LET at == Holders(Head(lines), chunks, k)
         IN  at # {} /\ InOrder(Tail(lines), chunks, CHOOSE j \in at : \A h \in at : j <= h)

\* every chunk is non-empty and at most max_chars characters long
WithinSize(chunks, max_chars) ==
    \A k \in 1..Len(chunks) : chunks[k][2] # "" /\ Len(chunks[k][2]) <= max_chars

\* C30 as stated: every chunk returned is non-empty and at most max_chars
\* characters long, and every non-empty line of at most max_chars
\* characters appears whole, in its original relative order, inside some
\* returned chunk of its section.
C30_LinesInOrder ==
    Chunked =>
        /\ WithinSize(applied.value[1], applied.args[2])
        /\ InOrder(ShortLines, applied.value[1], 1)

\* every line is held whole by a chunk of out under its section, and the
\* lines are in their order in produced
HeldAndProducedInOrder(lines, out, produced) ==
    /\ \A i \in 1..Len(lines) : Holders(lines[i], out, 1) # {}
    /\ InOrder(lines, produced, 1)
    /\ Len(out) = Len(produced) => InOrder(lines, out, 1)

\* C30: every chunk returned is non-empty and at most max_chars characters
\* long, and every non-empty line of at most max_chars characters appears
\* whole inside some returned chunk of its section; the lines are in their
\* original relative order in the chunks as produced, and so in the chunks
\* returned unless a chunk equal to an earlier one of its section was
\* dropped.
C30_ChunkSizeBound ==
    Chunked =>
        /\ WithinSize(applied.value[1], applied.args[2])
        /\ HeldAndProducedInOrder(ShortLines, applied.value[1], Produced)

\* three lines, the third equal to the first, have been chunked with
\* max_chars = 2 into two chunks: the chunk of the third line was dropped
C30_Witness ==
    /\ Chunked
    /\ applied.args = <<"aa\nbb\naa", 2, 1>>
    /\ applied.value[1] = <<<<"document", "aa">>, <<"document", "bb">>>>
    /\ Len(ShortLines) = 3

\* _best_evidence_for_requirement has returned with semantic reranking
\* enabled and a provider that gives no similarities
RankedWithoutProvider ==
    /\ applied.fn = "_best_evidence_for_requirement"
    /\ applied.value # None
    /\ applied.args[5] = TRUE
    /\ applied.args[6] \in ProviderFailures

\* run_grounded_gap_analysis has returned with semantic reranking enabled
\* and a provider that gives no similarities
AnalysedWithoutProvider ==
    /\ applied.fn = "run_grounded_gap_analysis"
    /\ applied.value # None
    /\ applied.args[3] = TRUE
    /\ applied.args[4] \in ProviderFailures

\* C12: with semantic reranking enabled and a provider that is unavailable
\* or fails, _best_evidence_for_requirement returns the triples it returns
\* with reranking disabled (same evidence, scores, rationales and order, no
\* semantic part in a rationale), and run_grounded_gap_analysis returns the
\* result it returns with reranking disabled.
C12_SemanticDegradation ==
    /\ RankedWithoutProvider =>
          /\ applied.value[1] =
                 _best_evidence_for_requirement(applied.args[1], applied.args[2], applied.args[3],
                                                applied.args[4], FALSE, applied.args[6])
          /\ \A k \in 1..Len(applied.value[1]) :
                \A part \in Range(applied.value[1][k].rationale) : part[1] # "semantic"
    /\ AnalysedWithoutProvider =>
          applied.value[1] = AnalysisResult(applied.args[1], applied.args[2], FALSE, applied.args[4])

\* three triples have been returned although the request to the provider
\* raised
C12_Witness ==
    /\ RankedWithoutProvider
    /\ applied.args[6] = "raises"
    /\ Len(applied.value[1]) = 3

\* _best_evidence_for_requirement has returned with semantic reranking off
RankedLexically ==
    /\ applied.fn = "_best_evidence_for_requirement"
    /\ applied.value # None
    /\ applied.args[5] = FALSE

\* the score of evidence item e for the requirement of the call:
\* clamp(tok_sim + tag_bonus + conf_bonus, 0, 1.25)
RankScore(e) ==
    LET tok_sim == _jaccard(_tokenize(applied.args[1]), _tokenize(e.chunk_text))
        overlap == (Range(tag_and_extract_signals(applied.args[1]).tags)
                        \cup (IF applied.args[2] # "" THEN {applied.args[2]} ELSE {}))
                   \cap Range(e.tags)
        tag_bonus == IF overlap = {} THEN Rat(0, 1)
                     ELSE IF Cardinality(overlap) >= 4 THEN Rat(40, 100)
                     ELSE Rat(20 + 5 * Cardinality(overlap), 100)
        conf_bonus == RMul(Rat(10, 100), e.confidence)
        sum == RAdd(RAdd(tok_sim, tag_bonus), conf_bonus)
    IN  IF RLt(sum, Rat(0, 1)) THEN Rat(0, 1)
        ELSE IF RLt(Rat(125, 100), sum) THEN Rat(125, 100)
        ELSE sum

\* the evidence items of the call with a score above 0.05, each with its
\* score
RankSurvivors ==
    {s \in {[e |-> e, score |-> RankScore(e)] : e \in Range(applied.args[3])} :
        RLt(Rat(5, 100), s.score)}

\* out holds the 3 highest-scoring of survivors, or all of them, in
\* non-increasing score order
TopSurvivors(out, survivors) ==
    /\ Len(out) <= 3
    /\ Len(out) = MinOf(3, Cardinality(survivors))
    /\ \A k \in 1..Len(out) : [e |-> out[k].e, score |-> out[k].score] \in survivors
    /\ \A k, h \in 1..Len(out) : k < h =>
          /\ out[k].e # out[h].e
          /\ RLe(out[h].score, out[k].score)
    /\ \A s \in survivors :
          (\A k \in 1..Len(out) : out[k].e # s.e) =>
              \A k \in 1..Len(out) : RLe(s.score, out[k].score)

\* C20: with semantic reranking off, _best_evidence_for_requirement returns
\* at most 3 triples, each an evidence item of the call with its score
\* clamp(tok_sim + tag_bonus + conf_bonus, 0, 1.25), none with a score
\* <= 0.05, in non-increasing score order, and they are the highest-scoring
\* survivors: as many as there are survivors up to 3, no item twice, and no
\* survivor left out scores above a returned one.
C20_LexicalRanking ==
    RankedLexically => TopSurvivors(applied.value[1], RankSurvivors)

\* out holds 3 of the 4 survivors, not all of one score, and a survivor
\* that scores below the three is left out
OneLeftOut(out, survivors) ==
    /\ Cardinality(survivors) = 4
    /\ Len(out) = 3
    /\ RLt(out[3].score, out[1].score)
    /\ \E s \in survivors : RLt(s.score, out[3].score)

\* three triples of different scores have been returned for four evidence
\* items, all of them survivors, and the one left out scores below the
\* three
C20_Witness ==
    /\ RankedLexically
    /\ Len(applied.args[3]) = 4
    /\ OneLeftOut(applied.value[1], RankSurvivors)

\* _best_evidence_for_requirement has returned with semantic reranking
\* enabled and a provider that gave similarities
RankedWithSimilarities ==
    /\ applied.fn = "_best_evidence_for_requirement"
    /\ applied.value # None
    /\ applied.args[5] = TRUE
    /\ applied.args[6] \notin ProviderFailures

\* run_grounded_gap_analysis has returned with semantic reranking enabled
\* and a provider that gave similarities
AnalysedWithSimilarities ==
    /\ applied.fn = "run_grounded_gap_analysis"
    /\ applied.value # None
    /\ applied.args[3] = TRUE
    /\ applied.args[4] \notin ProviderFailures

\* every candidate of the call in lexical order, and in the order after
\* the blend (top_k = the number of evidence items)
LexicalOrder ==
    _best_evidence_for_requirement(applied.args[1], applied.args[2], applied.args[3],
                                   Len(applied.args[3]), FALSE, applied.args[6])

BlendedOrder ==
    _best_evidence_for_requirement(applied.args[1], applied.args[2], applied.args[3],
                                   Len(applied.args[3]), TRUE, applied.args[6])

\* the similarities the provider gave for the first min(30, n) candidates
GivenSims == semantic_similarity(applied.args[6], MinOf(30, Len(LexicalOrder)))[1]

\* a similarity clamped to [0, 1]
ClampedSim(sim) ==
    IF RLt(sim, Rat(0, 1)) THEN Rat(0, 1)
    ELSE IF RLt(Rat(1, 1), sim) THEN Rat(1, 1)
    ELSE sim

\* the score after the blend of the i-th lexical candidate, base being its
\* lexical score
BlendScore(i, base, sims) ==
    IF i <= 30
    THEN LET new == RAdd(base, RMul(Rat(35, 100), ClampedSim(sims[i][2])))
         IN  IF RLt(Rat(125, 100), new) THEN Rat(125, 100) ELSE new
    ELSE base

\* blended is lexical after the blend with sims, and out its first 3
BlendOf(lexical, blended, sims, out) ==
    /\ Len(blended) = Len(lexical)
    /\ \A i \in 1..Len(lexical) :
          \E k \in 1..Len(blended) :
              /\ blended[k].e = lexical[i].e
              /\ blended[k].score = BlendScore(i, lexical[i].score, sims)
              /\ RLe(lexical[i].score, blended[k].score)
              /\ IF i <= 30
                 THEN /\ Len(blended[k].rationale) = Len(lexical[i].rationale) + 1
                      /\ blended[k].rationale[Len(blended[k].rationale)][1] = "semantic"
                 ELSE blended[k].rationale = lexical[i].rationale
    /\ \A k \in 1..(Len(blended) - 1) : RLe(blended[k + 1].score, blended[k].score)
    /\ out = SubSeq(blended, 1, MinOf(3, Len(blended)))
    /\ lexical # <<>> => out # <<>> /\ RLe(lexical[1].score, out[1].score)

ClassRank(classification) ==
    IF classification = "match" THEN 3
    ELSE IF classification = "partial" THEN 2
    ELSE 1

\* no requirement of blended has a lower match strength or a worse
\* classification than in lexical
NeverWorse(lexical, blended) ==
    /\ Len(blended) = Len(lexical)
    /\ \A k \in 1..Len(blended) :
          /\ RLe(lexical[k].match_strength, blended[k].match_strength)
          /\ ClassRank(blended[k].classification) >= ClassRank(lexical[k].classification)

\* C21: when the provider returns similarities, the first min(30, n)
\* lexical candidates get min(1.25, base + 0.35 * clamp(sim, 0, 1)) and a
\* semantic part in the rationale, the candidates after the 30th keep
\* their score and rationale, the whole list is in non-increasing score
\* order and its first 3 are returned; no score is lowered, so the top
\* score is at least the lexical one, and in an analysis no requirement
\* gets a lower match strength or a worse classification than without
\* reranking.
C21_SemanticBlend ==
    /\ RankedWithSimilarities =>
          BlendOf(LexicalOrder, BlendedOrder, GivenSims, applied.value[1])
    /\ AnalysedWithSimilarities =>
          NeverWorse(AnalysisResult(applied.args[1], applied.args[2], FALSE, applied.args[4]).all_results,
                     applied.value[1].all_results)

\* the 30th of lexical, the only candidate found similar, has moved up
\* past others in blended, and the 31st and 32nd have kept their places
MovedUp(lexical, blended) ==
    /\ Len(lexical) = 32
    /\ \E k \in 1..29 : blended[k].e = lexical[30].e
    /\ blended[31] = lexical[31]
    /\ blended[32] = lexical[32]

\* of 32 candidates the 30th in lexical order, the only one the provider
\* found similar, has moved up past others, and the last two have kept
\* their places and scores
C21_Witness ==
    /\ RankedWithSimilarities
    /\ applied.args[6] = "favour_last"
    /\ Len(applied.args[3]) = 32
    /\ MovedUp(LexicalOrder, BlendedOrder)

\* run_grounded_gap_analysis has returned
Analysed == applied.fn = "run_grounded_gap_analysis" /\ applied.value # None

\* the citations of record r are at most 3, in non-increasing order of
\* score, each with a quote of at most 600 characters
CitedInOrder(r) ==
    /\ Len(r.evidence) <= 3
    /\ \A k \in 1..Len(r.evidence) : Len(r.evidence[k].quote) <= 600
    /\ \A k \in 1..(Len(r.evidence) - 1) :
          RLe(r.evidence[k + 1].match_strength, r.evidence[k].match_strength)

\* the classification, the strength and the missing signals of record r
\* follow from its citations
Grounded(r) ==
    /\ r.classification \in {"match", "partial"} => Len(r.evidence) >= 1
    /\ r.evidence # <<>> => r.match_strength = r.evidence[1].match_strength
    /\ r.evidence = <<>> => /\ r.match_strength = Rat(0, 1)
                            /\ r.classification \in {"gap", "signal_gap"}
    /\ (r.missing_signals = <<r.competency>>) <=> (r.classification \in {"gap", "signal_gap"})

\* C29: in every result of run_grounded_gap_analysis a requirement is
\* classified match or partial only with at least one citation; it has at
\* most 3 citations, in non-increasing order of score, each quote of at
\* most 600 characters; its match_strength is the score of its first
\* citation, or 0 with classification gap or signal_gap when it has none;
\* and missing_signals is [competency] exactly when the classification is
\* gap or signal_gap.
C29_GroundedClassification ==
    Analysed =>
        \A i \in 1..Len(applied.value[1].all_results) :
            /\ CitedInOrder(applied.value[1].all_results[i])
            /\ Grounded(applied.value[1].all_results[i])

\* a result with a matched requirement of three citations of falling
\* score, one a quote of the first 600 characters of a longer chunk, and
\* with a requirement classified gap whose one citation is a weak match and
\* whose competency is its missing signal
C29_Witness ==
    /\ Analysed
    /\ applied.args[2] = LongQuoteEvidence
    /\ \E i, j \in 1..Len(applied.value[1].all_results) :
          LET r == applied.value[1].all_results[i]
              g == applied.value[1].all_results[j]
          IN  /\ r.classification \in {"match", "partial"}
              /\ Len(r.evidence) = 3
              /\ \E k \in 1..3 : /\ Len(r.evidence[k].quote) = 600
                                  /\ r.evidence[k].quote = SubSeq(LongQuoteText, 1, 600)
              /\ RLt(r.evidence[3].match_strength, r.evidence[1].match_strength)
              /\ Len(g.evidence) = 1
              /\ g.match_strength = g.evidence[1].match_strength
              /\ g.classification = "gap"
              /\ g.missing_signals = <<g.competency>>

\* ------------------------------------------------------------------------
\* The executive weighting of a gap result
\* ------------------------------------------------------------------------
\* classified requirements in one generated gap result
MaxExecResults == 3

\* a classified requirement: its competency, the mode of its line and its
\* class (gap for a must-have, signal_gap for a preferred one)
ExecKinds ==
    {"executive_comms", "regulated_healthcare", "general"}
    \X {<<"qualification", "match">>, <<"qualification", "partial">>,
        <<"qualification", "gap">>, <<"preferred", "signal_gap">>}

\* the record of all_results for requirement i of kind k
ExecRecordOf(i, k) ==
    ResultRecord(Requirement(i, k[2][1], "Own the narrative",
                             IF k[1] = "general" THEN <<>> ELSE <<k[1]>>),
                 "Own the narrative", k[1], <<>>,
                 IF k[2][2] = "match" THEN Rat(80, 100)
                 ELSE IF k[2][2] = "partial" THEN Rat(50, 100) ELSE Rat(0, 1),
                 k[2][2])

\* the gap result of the classified requirements kinds[1..n]
ExecGapResult(kinds) ==
    Finish(ScoreLoop([results |-> <<>>, total_weight |-> 0, score_accum |-> Rat(0, 1)],
                     [i \in 1..Len(kinds) |-> ExecRecordOf(i, kinds[i])]))

\* n requirements, alternately of kinds a and b
Alternating(n, a, b) == [i \in 1..n |-> IF i % 2 = 1 THEN a ELSE b]

\* short results of every kind, long ones around 30 listed competencies,
\* and the results of the analyses of the example store
ExecGapResults ==
    {ExecGapResult(kinds) : kinds \in UNION {[1..n -> ExecKinds] : n \in 0..MaxExecResults}}
    \cup {ExecGapResult(Alternating(n, a, <<"executive_comms", <<"qualification", "match">>>>)) :
             n \in {30, 31, 32, 61},
             a \in {<<"general", <<"qualification", "gap">>>>,
                    <<"regulated_healthcare", <<"qualification", "gap">>>>}}
    \cup GapResults

ExecMaxAbsAdjustments == {DefaultMaxAbsAdjustment, 3}

InitExec ==
    /\ StoreInit
    /\ applied = NoCall
    /\ mem \in {[NoAnalysis EXCEPT !.gap_result = g] :
                   g \in {None} \cup {Some(r) : r \in ExecGapResults}}

\* out = executive_weighted_score_from_gap_result(gap_result,
\*           max_abs_adjustment=..., enable=...)
ExecWeighting(max_abs_adjustment, enable) ==
    /\ applied = NoCall
    /\ \E out \in executive_weighted_score_from_gap_result(mem.gap_result, max_abs_adjustment,
                                                           enable) :
          /\ applied' = [fn    |-> "executive_weighted_score_from_gap_result",
                         args  |-> <<mem.gap_result, max_abs_adjustment, enable>>,
                         value |-> Some(out)]
          /\ mem' = [mem EXCEPT !.gap_result = AfterWeighting(mem.gap_result, out),
                                !.last_op = "weighting"]
    /\ UNCHANGED store

NextExec == \E m \in ExecMaxAbsAdjustments, enable \in BOOLEAN : ExecWeighting(m, enable)

SpecExec == InitExec /\ [][NextExec]_vars

\* executive_weighted_score_from_gap_result has returned
Weighted == applied.fn = "executive_weighted_score_from_gap_result"

\* C13: executive_weighted_score_from_gap_result leaves the gap result as
\* it was passed (score, summary, bucket lists and every record of
\* all_results), whatever enable is, and returns at most 30 exec_signals.
C13_WeightingReadOnly ==
    Weighted =>
        /\ mem.gap_result = applied.args[1]
        /\ mem.gap_result # None =>
              /\ mem.gap_result[1].overall_alignment_score
                     = applied.args[1][1].overall_alignment_score
              /\ mem.gap_result[1].summary = applied.args[1][1].summary
              /\ BucketLists(mem.gap_result[1]) = BucketLists(applied.args[1][1])
              /\ mem.gap_result[1].all_results = applied.args[1][1].all_results
        /\ "exec_signals" \in DOMAIN applied.value[1] => Len(applied.value[1].exec_signals) <= 30

\* an enabled call on a result with 31 requirements of listed competencies
\* has returned 30 exec_signals
C13_Witness ==
    /\ Weighted
    /\ applied.args[3] = TRUE
    /\ applied.args[1] # None
    /\ applied.value[1].exec_weighted_score # None
    /\ Cardinality({i \in 1..Len(applied.args[1][1].all_results) :
                       applied.args[1][1].all_results[i].competency \in DOMAIN EXEC_COMPETENCIES}) > 30
    /\ Len(applied.value[1].exec_signals) = 30

\* the must-have requirements of a listed competency that are classified gap
MustHaveExecGaps(g) ==
    {i \in 1..Len(g.all_results) :
        /\ g.all_results[i].must_have
        /\ g.all_results[i].classification = "gap"
        /\ g.all_results[i].competency
               \in {"executive_comms", "financial_comms", "corporate_narrative",
                    "product_comms", "regulated_healthcare"}}

\* C14: the adjustment is 0 when enable is false; with the default
\* max_abs_adjustment it lies in [-8, +8]; when a weighted score is returned
\* it is weighted score - overall_alignment_score, first capped to +2 if at
\* least two must-have requirements of a listed competency are gaps and the
\* difference is positive, then clamped to the range; with two or more such
\* gaps it is at most +2.
C14_AdjustmentBound ==
    Weighted =>
        LET out == applied.value[1]
            m   == applied.args[2]
        IN  /\ ~applied.args[3] => out.adjustment = 0
            /\ m = 8 => (out.adjustment >= 0 - 8 /\ out.adjustment <= 8)
            /\ out.exec_weighted_score = None => out.adjustment = 0
            /\ out.exec_weighted_score # None =>
                  LET g   == applied.args[1][1]
                      raw == out.exec_weighted_score[1] - g.overall_alignment_score
                      cap == IF Cardinality(MustHaveExecGaps(g)) >= 2 /\ raw > 0 /\ raw > 2
                             THEN 2 ELSE raw
                  IN  out.adjustment = (IF cap < 0 - m THEN 0 - m ELSE IF cap > m THEN m ELSE cap)
            /\ (applied.args[1] # None /\ Cardinality(MustHaveExecGaps(applied.args[1][1])) >= 2)
                   => out.adjustment <= 2

\* with two must-have gaps of a listed competency a difference above +2
\* has been capped to +2
C14_Witness ==
    /\ Weighted
    /\ applied.args[3] = TRUE
    /\ applied.args[2] = 8
    /\ applied.args[1] # None
    /\ applied.value[1].exec_weighted_score # None
    /\ Cardinality(MustHaveExecGaps(applied.args[1][1])) >= 2
    /\ applied.value[1].exec_weighted_score[1] - applied.args[1][1].overall_alignment_score > 2
    /\ applied.value[1].adjustment = 2

\* ------------------------------------------------------------------------
\* infer_years_experience applied to resume texts
\* ------------------------------------------------------------------------
\* words of one resume text
MaxYearWords == 3

\* words with the year YEAR_REGEX is to find in them, if any: years at the
\* ends of the range and next to punctuation, numbers outside the range, a
\* number of five digits, digits that follow a letter, a plain word
YearWordPool ==
    {<<"1970", Some(1970)>>, <<"2029.", Some(2029)>>, <<"2019", Some(2019)>>,
     <<"(1998-2020)", Some(1998)>>, <<"1969", None>>, <<"2030", None>>,
     <<"19999", None>>, <<"x2001", None>>, <<"since", None>>}

YearWordLists == UNION {[1..n -> YearWordPool] : n \in 0..MaxYearWords}

RECURSIVE JoinWords(_)
JoinWords(ws) ==
    IF ws = <<>> THEN ""
    ELSE IF Len(ws) = 1 THEN ws[1][1]
    ELSE ws[1][1] \o " " \o JoinWords(Tail(ws))

InitYears ==
    /\ StoreInit
    /\ mem = NoAnalysis
    /\ applied \in {[fn |-> "infer_years_experience", args |-> <<JoinWords(ws)>>, value |-> None] :
                       ws \in YearWordLists}

\* yrs = infer_years_experience(resume_text)
InferYears ==
    /\ applied.fn = "infer_years_experience"
    /\ applied.value = None
    /\ applied' = [applied EXCEPT !.value = Some(infer_years_experience(applied.args[1]))]
    /\ UNCHANGED <<store, mem>>

NextYears == InferYears

SpecYears == InitYears /\ [][NextYears]_vars

\* the distinct years of the words ws
DistinctYears(ws) ==
    UNION {IF ws[k][1] = "(1998-2020)" THEN {1998, 2020}
           ELSE IF ws[k][2] # None THEN {ws[k][2][1]} ELSE {} : k \in 1..Len(ws)}

\* max - min of a set of at least two years, null for a smaller set
SpanOfDistinct(years) ==
    IF Cardinality(years) < 2 THEN None
    ELSE Some((CHOOSE y \in years : \A z \in years : z <= y)
              - (CHOOSE y \in years : \A z \in years : y <= z))

\* C25: infer_years_experience returns max - min over the 4-digit years in
\* 1970..2029 found in the text, and null whenever fewer than two distinct
\* such years are found, a single year that occurs several times included.
C25_TenureInference ==
    (applied.fn = "infer_years_experience" /\ applied.value # None) =>
        \A ws \in YearWordLists :
            JoinWords(ws) = applied.args[1] => applied.value[1] = SpanOfDistinct(DistinctYears(ws))

\* ------------------------------------------------------------------------
\* Saving portfolio items: the handler of main.py that saves a pasted text
\* and refreshes the evidence cache and the gap result
\* ------------------------------------------------------------------------
\* portfolio items saved in one run
MaxPortfolioItems == 2

\* the stored resume text and job description, and the texts pasted
PortfolioResumeText == "Led crisis team"
PortfolioJobDescription == "Qualifications\n- Lead crisis communications"
PortfolioPastes ==
    {"Press release on FDA approval", " Lead crisis communications\n", "Sailing on weekends"}
PortfolioJobs == {1, 2}

InitPortfolio == StoreInit /\ mem = NoAnalysis /\ applied = NoCall

\* `if save_portfolio: if portfolio_paste.strip(): ...` for resume 1 and the
\* job selected: save_portfolio_item, get_portfolio_texts,
\* build_evidence_cache_for_job, run_grounded_gap_analysis and
\* save_grounded_gap_result on one connection
SavePortfolio(job_id, portfolio_paste) ==
    /\ Len(portfolio_items) < MaxPortfolioItems
    /\ \A w \in Workers : pc[w] = "idle"
    /\ strip(portfolio_paste) # ""
    /\ portfolio_items' = save_portfolio_item(portfolio_items, 1, Some(job_id),
                                              strip(portfolio_paste), now)
    /\ \E portfolio_texts \in get_portfolio_texts(portfolio_items', 1, Some(job_id), PortfolioLimit) :
          /\ evidence_chunks' = build_evidence_cache_for_job(evidence_chunks, 1, Some(job_id),
                                                             PortfolioResumeText, portfolio_texts, now)
          /\ \E gap_result \in run_grounded_gap_analysis(evidence_chunks', 1, Some(job_id),
                                                         PortfolioJobDescription,
                                                         DefaultEvidenceLimit, FALSE, "unavailable") :
                /\ grounded_gap_results' = GapUpsert(grounded_gap_results, 1, job_id,
                                                     json_dumps(gap_result), now)
                /\ last_saved' = [last_saved EXCEPT ![<<1, job_id>>] = Some(gap_result)]
    /\ loaded' = None
    /\ UNCHANGED <<txn, writer, now, pc, run, started, completed, finished, saving, mem, applied>>

NextPortfolio ==
    \/ \E job_id \in PortfolioJobs, portfolio_paste \in PortfolioPastes :
          SavePortfolio(job_id, portfolio_paste)
    \/ Tick

SpecPortfolio == InitPortfolio /\ [][NextPortfolio]_vars

\* the portfolio rows of evidence_chunks for resume 1 and the job that hold
\* the chunk text
PortfolioRows(job_id, chunk) ==
    {i \in 1..Len(evidence_chunks) :
        /\ evidence_chunks[i].resume_id = 1
        /\ evidence_chunks[i].job_id = Some(job_id)
        /\ evidence_chunks[i].source_type = "portfolio"
        /\ evidence_chunks[i].chunk_text = chunk}

\* C27: after every save of a portfolio item and the rebuild that follows
\* it, every chunk of every portfolio text saved for the (resume_id, job_id),
\* no text being saved twice, is stored exactly once for it: a rebuild adds
\* no second row for a chunk of an item saved earlier.
C27_NoDoubleCountingAcrossRebuilds ==
    \A i \in 1..Len(portfolio_items) :
        (\A j \in 1..Len(portfolio_items) :
             (j # i /\ portfolio_items[j].job_id = portfolio_items[i].job_id)
                 => portfolio_items[j].raw_text # portfolio_items[i].raw_text)
        => \A chunk \in Range(ChunkTexts(portfolio_items[i].raw_text)) :
               Cardinality(PortfolioRows(portfolio_items[i].job_id[1], chunk)) = 1
====
